---- MODULE Spec2Model ----
(***************************************************************************)
(* Smart Airport Ride Pooling: the matching worker (src/workers/matcher.py),*)
(* the ride endpoints (src/api/routes/rides.py), the Redis lease lock      *)
(* (src/infrastructure/locks.py) and the domain rules (src/domain).        *)
(*                                                                         *)
(* The stores are PostgreSQL tables read and written through SQLAlchemy    *)
(* sessions at READ COMMITTED: a statement reads the rows committed at the *)
(* time it runs plus the session's own flushed rows; an UPDATE, an INSERT  *)
(* and a SELECT ... FOR UPDATE lock the row until the transaction ends; an *)
(* UPDATE writes the columns the session changed onto the latest committed *)
(* row.  A statement that needs a row another transaction has locked waits:*)
(* its action is enabled once the rows it needs are free.  A SELECT with   *)
(* no ORDER BY returns rows by ascending id, except get_available, whose   *)
(* first row is any available cab; rows that tie on an ORDER BY key come   *)
(* in any order.  Ids are handed out in creation order.                    *)
(*                                                                         *)
(* Distances are on a line, in units of 100 m; money is in 1/100 units.    *)
(***************************************************************************)
EXTENDS Integers, Sequences, FiniteSets, TLC

\* ---------------------------------------------------------------- bounds
NumProcs == 2       \* processes, each running its own _loop
NumHandlers == 2    \* cancel requests that may be in flight together
MaxRides == 2       \* rides ever created
MaxGroups == 2      \* values the ride_groups id sequence may hand out
NumCabs == 1        \* cabs of the fleet
MaxExpiries == 1    \* leases that run out before their holder releases
NumEntities == 2    \* domain Ride objects
NumKeys == 2        \* idempotency keys clients use
MaxRequests == 3    \* POST /rides requests served
MaxDemand == 7      \* active requests a surge is asked for
MaxSupply == 2      \* available cabs a surge is asked for
MaxPosition == 5    \* passenger positions a price is asked for
MaxExisting == 1    \* passengers of the group a detour check is asked for
MaxTolerance == 5   \* detour tolerances, in tenths
MaxCapacity == 4    \* seat and luggage limits a capacity check is asked for
MaxParty == 2       \* seats and bags a capacity check is asked for
MaxMembers == 2     \* rides already in the first group of a stocked store
MaxWaiting == 2     \* rides PENDING in a stocked store

Procs == 1..NumProcs
Handlers == (NumProcs + 1)..(NumProcs + NumHandlers)
Tx == Procs \cup Handlers
Cabs == 1..NumCabs
Entities == 1..NumEntities

\* ------------------------------------------------------- program constants
NULL == 0                   \* a NULL id or price (ids start at 1, prices are > 0)
DEFAULT_MAX_SEATS == 4      \* CabModel.max_seats default, and max_s without a cab
DEFAULT_MAX_LUGGAGE == 3    \* CabModel.max_luggage default, and max_l without a cab
BASE_FARE == 5000           \* settings.base_fare = 50.0
RATE_PER_UNIT == 150        \* settings.rate_per_km = 15.0, per 100 m
TOLERANCE_TENTHS == 4       \* settings.detour_tolerance = 0.4
MIN_DIRECT == 1             \* direct < 0.1 km is negligible
CELL_WIDTH == 25            \* width of one spatial cell on the line
MIN_SEATS == 1              \* RideCreateRequest.seats_requested ge
MAX_SEATS == 6              \* RideCreateRequest.seats_requested le
MAX_LUGGAGE == 10           \* RideCreateRequest.luggage_count le
NOT_FOUND == 404            \* status_code of "Ride not found"
CONFLICT == 409             \* status_code of "Cannot cancel ride in status ..."
ACCEPTED == 202             \* status_code of POST /rides

RideStatus == {"PENDING", "MATCHED", "ON_TRIP", "COMPLETED", "CANCELLED"}

\* State machine: current status -> set of valid next statuses
RIDE_TRANSITIONS ==
    [s \in RideStatus |->
        CASE s = "PENDING" -> {"MATCHED", "CANCELLED"}
          [] s = "MATCHED" -> {"ON_TRIP", "CANCELLED"}
          [] s = "ON_TRIP" -> {"COMPLETED"}
          [] OTHER -> {}]

\* The request bodies the model submits: same-cell rides that pool (1, 2),
\* an opposite route (3), another cell (4), a party larger than a cab (5);
\* none carries an idempotency key.
Requests ==
    { [pickup |-> 100, dropoff |-> 200, seats |-> 1, luggage |-> 1, key |-> NULL],
      [pickup |-> 101, dropoff |-> 200, seats |-> 3, luggage |-> 2, key |-> NULL],
      [pickup |-> 100, dropoff |-> 0,   seats |-> 1, luggage |-> 0, key |-> NULL],
      [pickup |-> 130, dropoff |-> 200, seats |-> 1, luggage |-> 0, key |-> NULL],
      [pickup |-> 100, dropoff |-> 200, seats |-> 6, luggage |-> 0, key |-> NULL] }

\* RideCreateRequest: the field constraints a body must meet
Valid(body) ==
    /\ body.seats \in MIN_SEATS..MAX_SEATS
    /\ body.luggage \in 0..MAX_LUGGAGE

\* the bodies of rides that share a route and a cell
PoolRequests == {b \in Requests : b.pickup = 100 /\ b.dropoff = 200 /\ b.seats = 1}

\* the same bodies, with and without an idempotency key
Keys == 1..NumKeys
KeyedRequests == {[b EXCEPT !.key = k] : b \in Requests, k \in Keys \cup {NULL}}

\* ------------------------------------------------------------ pure helpers
Abs(x) == IF x < 0 THEN 0 - x ELSE x
Max(a, b) == IF a >= b THEN a ELSE b
Min(a, b) == IF a <= b THEN a ELSE b
EmptyFn == [x \in {} |-> NULL]
\* the ascending sequence of a finite set of integers
RECURSIVE SortedSeq(_)
SortedSeq(S) ==
    IF S = {} THEN <<>>
    ELSE LET m == CHOOSE x \in S : \A y \in S : x <= y
         IN <<m>> \o SortedSeq(S \ {m})

SeqRange(s) == {s[i] : i \in DOMAIN s}

\* great-circle distance, here the distance on the line
haversine_km(a, b) == Abs(a - b)

\* geo-point -> cell index
ride_h3_cell(p) == p \div CELL_WIDTH

\* sum of hops stops[j] -> stops[j+1] for j in from..(to-1)
RECURSIVE HopSum(_, _, _)
HopSum(stops, from, to) ==
    IF from >= to THEN 0
    ELSE haversine_km(stops[from], stops[from + 1]) + HopSum(stops, from + 1, to)

shared_leg_round_trip(pickups, dropoffs, i) ==
    2 * HopSum(pickups \o dropoffs, i, Len(pickups) + i)

\* shared-route distance of the passenger at 1-based index i
shared_leg(pickups, dropoffs, i) ==
    HopSum(pickups \o dropoffs, i, Len(pickups) + i)

detour_ok_candidate_only(existing_pickups, existing_dropoffs, new_pickup, new_dropoff, tenths) ==
    LET all_pickups == Append(existing_pickups, new_pickup)
        all_dropoffs == Append(existing_dropoffs, new_dropoff)
        i == Len(all_pickups)
        direct == haversine_km(all_pickups[i], all_dropoffs[i])
    IN \/ direct < MIN_DIRECT
       \/ 10 * shared_leg(all_pickups, all_dropoffs, i) <= (10 + tenths) * direct

\* every passenger's shared leg within (1 + tolerance) x direct distance
detour_ok(existing_pickups, existing_dropoffs, new_pickup, new_dropoff, tenths) ==
    LET all_pickups == Append(existing_pickups, new_pickup)
        all_dropoffs == Append(existing_dropoffs, new_dropoff)
    IN \A i \in DOMAIN all_pickups :
          LET direct == haversine_km(all_pickups[i], all_dropoffs[i])
          IN \/ direct < MIN_DIRECT
             \/ 10 * shared_leg(all_pickups, all_dropoffs, i) <= (10 + tenths) * direct

\* the places rides start and end at
Points == {b.pickup : b \in Requests} \cup {b.dropoff : b \in Requests}

\* the pickup or dropoff lists of a group of at most MaxExisting passengers
Stops(n) == [1..n -> Points]

\* n / d rounded to the nearest integer, ties to even (Python round)
RoundDiv(n, d) ==
    LET q == n \div d
        r == n % d
    IN IF 2 * r < d THEN q
       ELSE IF 2 * r > d THEN q + 1
       ELSE IF q % 2 = 0 THEN q ELSE q + 1

\* fractions <<numerator, denominator>> with a positive denominator
FracLess(x, y) == x[1] * y[2] < y[1] * x[2]
FracMax(x, y) == IF FracLess(x, y) THEN y ELSE x
FracMin(x, y) == IF FracLess(y, x) THEN y ELSE x

compute_surge_uncapped(active_requests, available_cabs) ==
    IF available_cabs <= 0 THEN <<3, 1>>
    ELSE FracMax(<<1, 1>>, <<active_requests, available_cabs>>)

\* surge as a fraction: min(3.0, max(1.0, active_requests / available_cabs))
compute_surge(active_requests, available_cabs) ==
    IF available_cabs <= 0 THEN <<3, 1>>
    ELSE FracMin(<<3, 1>>, FracMax(<<1, 1>>, <<active_requests, available_cabs>>))

Discount_two_tier(passenger_position) ==
    IF passenger_position = 1 THEN 0 ELSE 20

\* PoolDiscountPricing.DISCOUNTS, in percent
Discount(passenger_position) ==
    CASE Min(passenger_position, 3) = 1 -> 0
      [] Min(passenger_position, 3) = 2 -> 20
      [] OTHER -> 30

calculate_price(pickup, dropoff, passenger_position, active_requests, available_cabs) ==
    LET distance == haversine_km(pickup, dropoff)
        surge == compute_surge(active_requests, available_cabs)
        fare == BASE_FARE + distance * RATE_PER_UNIT
    IN RoundDiv(fare * surge[1] * (100 - Discount(passenger_position)),
                surge[2] * 100)

\* ------------------------------------------------------------------ state
VARIABLES
    rides,      \* committed rides table: sequence of rows, index = id
    groups,     \* committed ride_groups table: function id -> row
    cabs,       \* committed cabs table: function id -> is_available
    groupSeq,   \* last value of the ride_groups id sequence
    held,       \* per transaction: the rows it has locked, with its versions
    lockKey,    \* Redis key lock:matching_engine: NULL or the holder's token
    pc,         \* per process: where its _loop is
    cy,         \* per process: the locals and session of its running cycle
    hc,         \* per handler: the locals and session of its cancel request
    expiries,   \* leases that have run out so far
    entity,     \* domain Ride objects outside any session
    call,       \* the last Ride.transition_to call and how it ended
    quote,      \* the last PricingEngine call and what it returned
    reply,      \* the response to the last POST /rides
    stop,       \* per process: its _stop_event is set
    ret,        \* the last call of a pure domain function and what it returned
    joined      \* history, per group: the rides committed to it, in order, each
                \* with the passenger position it was priced at

vars == <<rides, groups, cabs, groupSeq, held, lockKey, pc, cy, hc, expiries, entity, call, quote, reply, stop,
          ret, joined>>

NoHeld == [rides |-> EmptyFn, groups |-> EmptyFn, cabs |-> EmptyFn]

NoCycle ==
    [pending |-> <<>>, placed |-> EmptyFn, unflushed |-> {},
     areq |-> 0, acabs |-> 0, cells |-> <<>>, cell |-> 0, queue |-> <<>>,
     cand |-> <<>>, gdata |-> EmptyFn, scabs |-> EmptyFn, log |-> <<>>,
     matched |-> 0, outcome |-> "none"]

NoRideRow ==
    [status |-> "NONE", group |-> NULL, price |-> NULL, seats |-> 0, luggage |-> 0,
     pickup |-> 0, dropoff |-> 0, key |-> NULL, created |-> 0]
NoGroupRow ==
    [cab |-> NULL, seats |-> 0, luggage |-> 0, status |-> "NONE", cell |-> 0]

NoCall == [self |-> 0, before |-> "NONE", new_status |-> "NONE", raised |-> FALSE]

NoQuote ==
    [op |-> "none", pickup |-> 0, dropoff |-> 0, active_requests |-> 0,
     available_cabs |-> 0, surge |-> <<1, 1>>, prices |-> <<>>]

NoReply == [id |-> NULL, key |-> NULL, n |-> 0]

NoRet ==
    [op |-> "none", self |-> <<>>, args |-> <<>>, out |-> FALSE, after |-> <<>>, done |-> FALSE]

NoRequest ==
    [pc |-> "idle", rid |-> NULL, ride |-> NoRideRow, gorig |-> NoGroupRow,
     gcur |-> NoGroupRow, cab |-> [avail |-> FALSE, dirty |-> FALSE], code |-> 0]

Init ==
    /\ rides = <<>>
    /\ groups = EmptyFn
    /\ cabs = [c \in Cabs |-> TRUE]
    /\ groupSeq = 0
    /\ held = [t \in Tx |-> NoHeld]
    /\ lockKey = NULL
    /\ pc = [p \in Procs |-> "wait"]
    /\ cy = [p \in Procs |-> NoCycle]
    /\ hc = [h \in Handlers |-> NoRequest]
    /\ expiries = 0
    /\ entity = [e \in Entities |-> [status |-> "PENDING"]]
    /\ call = NoCall
    /\ quote = NoQuote
    /\ reply = NoReply
    /\ stop = [p \in Procs |-> FALSE]
    /\ ret = NoRet
    /\ joined = EmptyFn

\* ------------------------------------------------------------ domain Ride
transition_to_reentrant(status, new_status) ==
    LET allowed == RIDE_TRANSITIONS[status] \cup {status}
    IN IF new_status \notin allowed
       THEN [status |-> status, raised |-> TRUE]
       ELSE [status |-> new_status, raised |-> FALSE]

\* Ride.transition_to: the status after the call, and whether it raised
\* InvalidStateTransition
transition_to(status, new_status) ==
    LET allowed == RIDE_TRANSITIONS[status]
    IN IF new_status \notin allowed
       THEN [status |-> status, raised |-> TRUE]
       ELSE [status |-> new_status, raised |-> FALSE]

\* a caller invokes entity[e].transition_to(new_status)
TransitionTo(e, new_status) ==
    LET out == transition_to(entity[e].status, new_status)
    IN /\ entity' = [entity EXCEPT ![e].status = out.status]
       /\ call' = [self |-> e, before |-> entity[e].status,
                   new_status |-> new_status, raised |-> out.raised]
       /\ UNCHANGED <<rides, groups, cabs, groupSeq, held, lockKey, pc, cy, hc, expiries,
                      quote, reply, stop, ret, joined>>

\* ------------------------------------------------- detour_ok, RideGroup
\* the caller's detour_ok call returns
DetourOk ==
    /\ ret.op = "detour_ok"
    /\ ~ret.done
    /\ ret' = [ret EXCEPT !.out = detour_ok(ret.args[1], ret.args[2], ret.args[3],
                                            ret.args[4], ret.args[5]),
                          !.done = TRUE]
    /\ UNCHANGED <<rides, groups, cabs, groupSeq, held, lockKey, pc, cy, hc, expiries,
                   entity, call, quote, reply, stop, joined>>

can_accommodate_strict(self, seats, luggage, max_seats, max_luggage) ==
    /\ self[1] + seats < max_seats
    /\ self[2] + luggage < max_luggage

\* RideGroup.can_accommodate; self is <<seats_occupied, luggage_occupied>>
can_accommodate(self, seats, luggage, max_seats, max_luggage) ==
    /\ self[1] + seats <= max_seats
    /\ self[2] + luggage <= max_luggage

\* the caller's group.can_accommodate call returns; the method assigns nothing
CanAccommodate ==
    /\ ret.op = "can_accommodate"
    /\ ~ret.done
    /\ ret' = [ret EXCEPT !.out = can_accommodate(ret.self, ret.args[1], ret.args[2],
                                                  ret.args[3], ret.args[4]),
                          !.after = ret.self,
                          !.done = TRUE]
    /\ UNCHANGED <<rides, groups, cabs, groupSeq, held, lockKey, pc, cy, hc, expiries,
                   entity, call, quote, reply, stop, joined>>

\* -------------------------------------------------------- PricingEngine
\* a caller invokes PricingEngine.compute_surge(a, c)
ComputeSurge(a, c) ==
    /\ quote' = [NoQuote EXCEPT !.op = "surge",
                                !.active_requests = a,
                                !.available_cabs = c,
                                !.surge = compute_surge(a, c)]
    /\ UNCHANGED <<rides, groups, cabs, groupSeq, held, lockKey, pc, cy, hc, expiries,
                   entity, call, reply, stop, ret, joined>>

\* a caller invokes PricingEngine.calculate_price for one route, demand and
\* supply at each passenger position
CalculatePrice(pickup, dropoff, a, c) ==
    /\ quote' = [op |-> "price", pickup |-> pickup, dropoff |-> dropoff,
                 active_requests |-> a, available_cabs |-> c,
                 surge |-> compute_surge(a, c),
                 prices |-> [k \in 1..MaxPosition |->
                                calculate_price(pickup, dropoff, k, a, c)]]
    /\ UNCHANGED <<rides, groups, cabs, groupSeq, held, lockKey, pc, cy, hc, expiries,
                   entity, call, reply, stop, ret, joined>>

\* ------------------------------------------------------------ the stores
CabMaxSeats(c) == DEFAULT_MAX_SEATS
CabMaxLuggage(c) == DEFAULT_MAX_LUGGAGE

\* a row as transaction t reads it: its own version, else the committed one
RideView(t, i) == IF i \in DOMAIN held[t].rides THEN held[t].rides[i] ELSE rides[i]
GroupView(t, g) == IF g \in DOMAIN held[t].groups THEN held[t].groups[g] ELSE groups[g]
\* the rows some other transaction has locked
RideLocked(t, i) == \E u \in Tx \ {t} : i \in DOMAIN held[u].rides
GroupLocked(t, g) == \E u \in Tx \ {t} : g \in DOMAIN held[u].groups
CabLocked(t, c) == \E u \in Tx \ {t} : c \in DOMAIN held[u].cabs

\* UPDATE: the columns the session changed, written onto the row's latest version
Merge(base, orig, cur) ==
    [f \in DOMAIN base |-> IF cur[f] # orig[f] THEN cur[f] ELSE base[f]]

\* COMMIT of t: its versions become the committed rows
CommittedRides(h) ==
    [i \in DOMAIN rides |-> IF i \in DOMAIN h.rides THEN h.rides[i] ELSE rides[i]]
CommittedGroups(h) ==
    [g \in DOMAIN groups \cup DOMAIN h.groups |->
        IF g \in DOMAIN h.groups THEN h.groups[g] ELSE groups[g]]
CommittedCabs(h) ==
    [c \in Cabs |-> IF c \in DOMAIN h.cabs THEN h.cabs[c] ELSE cabs[c]]

\* views over a given set of held rows h (a transaction's rows after a flush)
RideIn(h, i) == IF i \in DOMAIN h.rides THEN h.rides[i] ELSE rides[i]
GroupIn(h, g) == IF g \in DOMAIN h.groups THEN h.groups[g] ELSE groups[g]
CabIn(h, c) == IF c \in DOMAIN h.cabs THEN h.cabs[c] ELSE cabs[c]

\* ------------------------------------------------------------ repositories
get_pending_rides_by_id(h) ==
    {SortedSeq({i \in DOMAIN rides : RideIn(h, i).status = "PENDING"})}

\* RideRepository.get_pending_rides: the PENDING rides ORDER BY created_at;
\* the query names no second sort key, so rides with the same created_at come
\* in any order. The orders the query may return.
get_pending_rides(h) ==
    LET S == {i \in DOMAIN rides : RideIn(h, i).status = "PENDING"}
    IN {s \in [1..Cardinality(S) -> S] :
          /\ \A i \in DOMAIN s, j \in DOMAIN s : i # j => s[i] # s[j]
          /\ \A i \in DOMAIN s, j \in DOMAIN s :
                i < j => rides[s[i]].created <= rides[s[j]].created}

\* RideRepository.get_rides_in_group
get_rides_in_group(h, g) ==
    SortedSeq({i \in DOMAIN rides : RideIn(h, i).group = g})

\* CabRepository.count_available
count_available(h) == Cardinality({c \in Cabs : CabIn(h, c)})

\* CabRepository.get_available
get_available(h) == {c \in Cabs : CabIn(h, c)}

get_active_groups_for_update_any_cell(h, cell) ==
    {g \in DOMAIN groups \cup DOMAIN h.groups : GroupIn(h, g).status = "ACTIVE"}

\* RideGroupRepository.get_active_groups_for_update: the ACTIVE groups of a cell
get_active_groups_for_update(h, cell) ==
    {g \in DOMAIN groups \cup DOMAIN h.groups :
        GroupIn(h, g).status = "ACTIVE" /\ GroupIn(h, g).cell = cell}

\* RideRepository.create_ride: the row of a new ride; created_at is now(),
\* the time the inserting transaction began
create_ride(body, now) ==
    [status |-> "PENDING", group |-> NULL, price |-> NULL,
     seats |-> body.seats, luggage |-> body.luggage,
     pickup |-> body.pickup, dropoff |-> body.dropoff, key |-> body.key,
     created |-> now]

get_by_idempotency_key_none(key) == NULL

\* RideRepository.get_by_idempotency_key: the id of the ride stored with the
\* key (the column is unique), NULL when there is none
get_by_idempotency_key(key) ==
    IF \E i \in DOMAIN rides : rides[i].key = key
    THEN CHOOSE i \in DOMAIN rides : rides[i].key = key
    ELSE NULL

\* ----------------------------------------------------------- lease lock
\* the token of the DistributedLock a process builds for its cycle (a uuid4;
\* a process runs one cycle at a time, so its id stands for the token)
Token(p) == p

lock_acquire_overwrite(tok) == tok

\* DistributedLock.acquire: SET key token NX EX ttl; the key's value after it
lock_acquire(tok) == IF lockKey = NULL THEN tok ELSE lockKey

lock_release_kept(tok) == lockKey

lock_release_any(tok) == NULL

\* DistributedLock.release: delete the key only if it holds the token
lock_release(tok) == IF lockKey = tok THEN NULL ELSE lockKey

\* the lease runs out: Redis drops the key, whoever holds it
LeaseExpire ==
    /\ lockKey # NULL
    /\ expiries < MaxExpiries
    /\ lockKey' = NULL
    /\ expiries' = expiries + 1
    /\ UNCHANGED <<rides, groups, cabs, groupSeq, held, pc, cy, hc, entity, call, quote, reply, stop, ret,
                   joined>>

\* ------------------------------------------------------------ create_ride
\* POST /rides: return the ride stored with the body's idempotency key, or
\* insert a PENDING ride; get_db commits
CreateRide(body) ==
    /\ Valid(body)
    /\ reply.n < MaxRequests
    /\ LET existing == IF body.key # NULL THEN get_by_idempotency_key(body.key)
                       ELSE NULL
       IN IF existing # NULL
          THEN /\ rides' = rides
               /\ reply' = [id |-> existing, key |-> body.key, n |-> reply.n + 1]
          ELSE /\ Len(rides) < MaxRides
               /\ rides' = Append(rides, create_ride(body, Len(rides) + 1))
               /\ reply' = [id |-> Len(rides) + 1, key |-> body.key, n |-> reply.n + 1]
    /\ UNCHANGED <<groups, cabs, groupSeq, held, lockKey, pc, cy, hc, expiries, entity,
                   call, quote, stop, ret, joined>>

\* create_ride, step by step, for requests that overlap.  A request that has
\* ended keeps in hc what it answered: pc "idle" with the ride's id and the
\* status code, or pc "raised" when an exception left the route.  Rides are
\* numbered in the order of their commits.

\* the idempotency guard: the lookup sees committed rows only
CreateLookup(h, body) ==
    /\ hc[h].pc \in {"idle", "raised"}
    /\ Valid(body)
    /\ reply.n < MaxRequests
    /\ LET existing == IF body.key # NULL THEN get_by_idempotency_key(body.key)
                       ELSE NULL
       IN IF existing # NULL
          THEN /\ hc' = [hc EXCEPT ![h] =
                            [NoRequest EXCEPT !.rid = existing,
                                              !.ride = rides[existing],
                                              !.code = ACCEPTED]]
               /\ reply' = [id |-> existing, key |-> body.key, n |-> reply.n + 1]
          ELSE /\ hc' = [hc EXCEPT ![h] =
                            [NoRequest EXCEPT
                                !.pc = "insert",
                                !.ride = create_ride(body, Len(rides) + 1)]]
               /\ reply' = [reply EXCEPT !.n = @ + 1]
    /\ UNCHANGED <<rides, groups, cabs, groupSeq, held, lockKey, pc, cy, expiries, entity,
                   call, quote, stop, ret, joined>>

\* the requests whose INSERT with the key is not committed yet
Inserting(key) == {u \in Handlers : hc[u].pc = "commit" /\ hc[u].ride.key = key}

\* repo.create_ride: session.add, flush.  The INSERT waits while another
\* transaction's row with the same key is uncommitted (the unique index)
CreateInsert(h) ==
    /\ hc[h].pc = "insert"
    /\ LET key == hc[h].ride.key
       IN key # NULL =>
             /\ Inserting(key) = {}
             /\ get_by_idempotency_key(key) = NULL
    /\ Len(rides) + Cardinality({u \in Handlers : hc[u].pc = "commit"}) < MaxRides
    /\ hc' = [hc EXCEPT ![h].pc = "commit"]
    /\ UNCHANGED <<rides, groups, cabs, groupSeq, held, lockKey, pc, cy, expiries, entity, call, quote, reply, stop, ret,
                   joined>>

\* the INSERT meets a committed row with its key: the flush raises
\* IntegrityError, nothing in the route catches it, get_db rolls back
CreateConflict(h) ==
    /\ hc[h].pc = "insert"
    /\ hc[h].ride.key # NULL
    /\ get_by_idempotency_key(hc[h].ride.key) # NULL
    /\ hc' = [hc EXCEPT ![h].pc = "raised"]
    /\ UNCHANGED <<rides, groups, cabs, groupSeq, held, lockKey, pc, cy, expiries, entity, call, quote, reply, stop, ret,
                   joined>>

\* return ride; get_db commits
CreateCommit(h) ==
    /\ hc[h].pc = "commit"
    /\ rides' = Append(rides, hc[h].ride)
    /\ hc' = [hc EXCEPT ![h] =
                 [NoRequest EXCEPT !.rid = Len(rides) + 1,
                                   !.ride = hc[h].ride,
                                   !.code = ACCEPTED]]
    /\ reply' = [id |-> Len(rides) + 1, key |-> hc[h].ride.key, n |-> reply.n]
    /\ UNCHANGED <<groups, cabs, groupSeq, held, lockKey, pc, cy, expiries, entity, call, quote, stop, ret, joined>>

\* ----------------------------------------------------- run_matching_cycle
\* the session's unflushed changes: rides it matched, cabs it took
DirtyCabs(c) == {x \in DOMAIN c.scabs : c.scabs[x].dirty}

\* a flush waits for the rows it updates
CanFlush(p) ==
    /\ \A r \in cy[p].unflushed : ~RideLocked(p, r)
    /\ \A x \in DirtyCabs(cy[p]) : ~CabLocked(p, x)

\* autoflush: UPDATE rides SET status, ride_group_id, price; UPDATE cabs SET
\* is_available.  The rows stay locked, uncommitted, in the transaction.
Flushed(p) ==
    [held[p] EXCEPT
        !.rides = [r \in cy[p].unflushed |->
                      [RideView(p, r) EXCEPT !.status = "MATCHED",
                                             !.group = cy[p].placed[r].group,
                                             !.price = cy[p].placed[r].price]] @@ @,
        !.cabs = [x \in DirtyCabs(cy[p]) |-> FALSE] @@ @]

AfterFlush(c) ==
    [c EXCEPT !.unflushed = {},
              !.scabs = [x \in DOMAIN c.scabs |-> [c.scabs[x] EXCEPT !.dirty = FALSE]]]

\* cells in the order their first ride was fetched (dict insertion order)
RECURSIVE CellOrder(_)
CellOrder(ids) ==
    IF ids = <<>> THEN <<>>
    ELSE LET c == ride_h3_cell(rides[Head(ids)].pickup)
         IN <<c>> \o SelectSeq(CellOrder(Tail(ids)), LAMBDA x : x # c)

\* lock.acquire() succeeded: the cycle starts
CycleAcquire(p) ==
    /\ pc[p] = "wait"
    /\ lockKey = NULL
    /\ lockKey' = lock_acquire(Token(p))
    /\ pc' = [pc EXCEPT ![p] = "fetch"]
    /\ UNCHANGED <<rides, groups, cabs, groupSeq, held, cy, hc, expiries, entity, call, quote, reply, stop, ret,
                   joined>>

CycleSkip_deletes(p) ==
    /\ pc[p] = "wait"
    /\ lockKey # NULL
    /\ lockKey' = NULL
    /\ pc' = [pc EXCEPT ![p] = "returned"]
    /\ cy' = [cy EXCEPT ![p] = [NoCycle EXCEPT !.outcome = "skipped"]]
    /\ UNCHANGED <<rides, groups, cabs, groupSeq, held, hc, expiries, entity, call, quote, reply, stop, ret,
                   joined>>

\* lock.acquire() failed: return 0
CycleSkip(p) ==
    /\ pc[p] = "wait"
    /\ lockKey # NULL
    /\ lockKey' = lock_acquire(Token(p))
    /\ pc' = [pc EXCEPT ![p] = "returned"]
    /\ cy' = [cy EXCEPT ![p] = [NoCycle EXCEPT !.outcome = "skipped"]]
    /\ UNCHANGED <<rides, groups, cabs, groupSeq, held, hc, expiries, entity, call, quote, reply, stop, ret,
                   joined>>

\* 1. fetch pending rides, count cabs; 2. spatial binning
CycleFetch(p) ==
    /\ pc[p] = "fetch"
    /\ \E pending \in get_pending_rides(held[p]) :
          IF pending = <<>>
          THEN /\ pc' = [pc EXCEPT ![p] = "release"]
               /\ cy' = [cy EXCEPT ![p] = [NoCycle EXCEPT !.outcome = "empty"]]
          ELSE /\ pc' = [pc EXCEPT ![p] = "cell"]
               /\ cy' = [cy EXCEPT ![p] =
                            [NoCycle EXCEPT !.pending = pending,
                                            !.areq = Len(pending),
                                            !.acabs = count_available(held[p]),
                                            !.cells = CellOrder(pending)]]
    /\ UNCHANGED <<rides, groups, cabs, groupSeq, held, lockKey, hc, expiries, entity, call, quote, reply, stop, ret,
                   joined>>

\* 3. next cell: its ACTIVE groups FOR UPDATE, and each group's rides
CycleLoadCell(p) ==
    /\ pc[p] = "cell"
    /\ CanFlush(p)
    /\ LET cell == Head(cy[p].cells)
           h1 == Flushed(p)
           found == get_active_groups_for_update(h1, cell)
           h2 == [h1 EXCEPT !.groups = [g \in found |-> GroupIn(h1, g)] @@ @]
       IN /\ \A g \in found : ~GroupLocked(p, g)
          /\ held' = [held EXCEPT ![p] = h2]
          /\ cy' = [cy EXCEPT ![p] =
                       [AfterFlush(cy[p]) EXCEPT
                           !.cells = Tail(cy[p].cells),
                           !.cell = cell,
                           !.queue = SelectSeq(cy[p].pending,
                               LAMBDA r : ride_h3_cell(rides[r].pickup) = cell),
                           !.cand = SortedSeq(found),
                           !.gdata = [g \in found |-> get_rides_in_group(h2, g)]]]
    /\ pc' = [pc EXCEPT ![p] = "place"]
    /\ UNCHANGED <<rides, groups, cabs, groupSeq, lockKey, hc, expiries, entity, call, quote, reply, stop, ret,
                   joined>>

\* the capacity check and the detour check of one candidate group
Accepts(p, g, r) ==
    LET grp == held[p].groups[g]
        max_s == IF grp.cab # NULL THEN CabMaxSeats(grp.cab) ELSE DEFAULT_MAX_SEATS
        max_l == IF grp.cab # NULL THEN CabMaxLuggage(grp.cab) ELSE DEFAULT_MAX_LUGGAGE
        members == cy[p].gdata[g]
    IN /\ ~(\/ grp.seats + rides[r].seats > max_s
            \/ grp.luggage + rides[r].luggage > max_l)
       /\ detour_ok([i \in DOMAIN members |-> rides[members[i]].pickup],
                    [i \in DOMAIN members |-> rides[members[i]].dropoff],
                    rides[r].pickup, rides[r].dropoff, TOLERANCE_TENTHS)

FirstFit_none(p, r) == 0

FirstFit_last(p, r) ==
    LET ok == {k \in DOMAIN cy[p].cand : Accepts(p, cy[p].cand[k], r)}
    IN IF ok = {} THEN 0 ELSE CHOOSE k \in ok : \A j \in ok : k >= j

\* index in the candidate list of the first group that accepts, 0 if none
FirstFit(p, r) ==
    LET ok == {k \in DOMAIN cy[p].cand : Accepts(p, cy[p].cand[k], r)}
    IN IF ok = {} THEN 0 ELSE CHOOSE k \in ok : \A j \in ok : k <= j

\* the cabs of the groups scanned up to index k: cab_repo.get_by_id loads
\* the ones the session does not hold yet
ScannedCabs(p, k) ==
    {held[p].groups[cy[p].cand[j]].cab : j \in 1..k} \ {NULL}

\* where the cycle goes after placing the head of the queue
AfterPlace(c) ==
    IF Len(c.queue) > 1 THEN "place"
    ELSE IF c.cells # <<>> THEN "cell" ELSE "commit"

WithPassenger_twice(grp, seats, luggage) ==
    [grp EXCEPT !.seats = @ + seats + seats, !.luggage = @ + luggage + luggage]

\* g.seats_occupied += ride.seats_requested; g.luggage_occupied += ...
WithPassenger(grp, seats, luggage) ==
    [grp EXCEPT !.seats = @ + seats, !.luggage = @ + luggage]

\* a ride joins the first group that accepts it
CyclePlaceJoin(p) ==
    /\ pc[p] = "place"
    /\ LET r == Head(cy[p].queue)
           k == FirstFit(p, r)
           g == cy[p].cand[k]
           toLoad == ScannedCabs(p, k) \ DOMAIN cy[p].scabs
           hit == toLoad # {}
           h1 == IF hit THEN Flushed(p) ELSE held[p]
           c1 == IF hit THEN AfterFlush(cy[p]) ELSE cy[p]
           position == Len(cy[p].gdata[g]) + 1
           price == calculate_price(rides[r].pickup, rides[r].dropoff, position,
                                    cy[p].areq, Max(cy[p].acabs, 1))
       IN /\ k # 0
          /\ hit => CanFlush(p)
          /\ held' = [held EXCEPT ![p] =
                         [h1 EXCEPT !.groups[g] =
                             WithPassenger(@, rides[r].seats, rides[r].luggage)]]
          /\ cy' = [cy EXCEPT ![p] =
                       [c1 EXCEPT
                           !.scabs = [x \in toLoad |->
                                         [avail |-> CabIn(h1, x), dirty |-> FALSE]] @@ @,
                           !.gdata[g] = Append(@, r),
                           !.placed = (r :> [group |-> g, price |-> price,
                                             position |-> position]) @@ @,
                           !.unflushed = @ \cup {r},
                           !.log = Append(@, <<r, g>>),
                           !.matched = @ + 1,
                           !.queue = Tail(@)]]
          /\ pc' = [pc EXCEPT ![p] = AfterPlace(cy[p])]
    /\ UNCHANGED <<rides, groups, cabs, groupSeq, lockKey, hc, expiries, entity, call, quote, reply, stop, ret,
                   joined>>

CyclePlaceCreate_skips(p) ==
    /\ pc[p] = "place"
    /\ FirstFit(p, Head(cy[p].queue)) = 0
    /\ cy' = [cy EXCEPT ![p].queue = Tail(@)]
    /\ pc' = [pc EXCEPT ![p] = AfterPlace(cy[p])]
    /\ UNCHANGED <<rides, groups, cabs, groupSeq, held, lockKey, hc, expiries, entity, call, quote, reply, stop,
                   ret, joined>>

\* no group accepts: a new group with an available cab, or with none
CyclePlaceCreate(p) ==
    /\ pc[p] = "place"
    /\ groupSeq < MaxGroups
    /\ CanFlush(p)
    /\ LET r == Head(cy[p].queue)
           h1 == Flushed(p)
           c1 == AfterFlush(cy[p])
           toLoad == ScannedCabs(p, Len(cy[p].cand)) \ DOMAIN cy[p].scabs
           scabs1 == [x \in toLoad |-> [avail |-> CabIn(h1, x), dirty |-> FALSE]]
                        @@ c1.scabs
           free == get_available(h1)
           id == groupSeq + 1
           price == calculate_price(rides[r].pickup, rides[r].dropoff, 1,
                                    cy[p].areq, Max(cy[p].acabs, 1))
       IN /\ FirstFit(p, r) = 0
          /\ \E cab \in (IF free = {} THEN {NULL} ELSE free) :
               LET new_group == [cab |-> cab, seats |-> rides[r].seats,
                                 luggage |-> rides[r].luggage, status |-> "ACTIVE",
                                 cell |-> cy[p].cell]
                   obj == IF cab \in DOMAIN scabs1 THEN scabs1[cab]
                          ELSE [avail |-> TRUE, dirty |-> FALSE]
                   scabs2 == IF cab = NULL THEN scabs1
                             ELSE (cab :> [avail |-> FALSE, dirty |-> obj.avail]) @@ scabs1
               IN /\ held' = [held EXCEPT ![p] =
                                 [h1 EXCEPT !.groups = (id :> new_group) @@ @]]
                  /\ cy' = [cy EXCEPT ![p] =
                               [c1 EXCEPT
                                   !.scabs = scabs2,
                                   !.cand = Append(@, id),
                                   !.gdata = (id :> <<r>>) @@ @,
                                   !.placed = (r :> [group |-> id, price |-> price,
                                                     position |-> 1]) @@ @,
                                   !.unflushed = @ \cup {r},
                                   !.log = Append(@, <<r, id>>),
                                   !.matched = @ + 1,
                                   !.queue = Tail(@)]]
          /\ groupSeq' = id
          /\ pc' = [pc EXCEPT ![p] = AfterPlace(cy[p])]
    /\ UNCHANGED <<rides, groups, cabs, lockKey, hc, expiries, entity, call, quote, reply, stop, ret, joined>>

\* the history after a commit of the placements in log
Joined(log, placed) ==
    [g \in DOMAIN joined \cup {log[i][2] : i \in DOMAIN log} |->
        LET es == SelectSeq(log, LAMBDA e : e[2] = g)
        IN (IF g \in DOMAIN joined THEN joined[g] ELSE <<>>)
              \o [i \in DOMAIN es |->
                    [ride |-> es[i][1], position |-> placed[es[i][1]].position]]]

\* session.commit(): flush what is left, then COMMIT
CycleCommit(p) ==
    /\ pc[p] = "commit"
    /\ CanFlush(p)
    /\ LET h1 == Flushed(p)
       IN /\ rides' = CommittedRides(h1)
          /\ groups' = CommittedGroups(h1)
          /\ cabs' = CommittedCabs(h1)
    /\ joined' = Joined(cy[p].log, cy[p].placed)
    /\ held' = [held EXCEPT ![p] = NoHeld]
    /\ cy' = [cy EXCEPT ![p] =
                 [NoCycle EXCEPT !.matched = cy[p].matched, !.outcome = "committed"]]
    /\ pc' = [pc EXCEPT ![p] = "release"]
    /\ UNCHANGED <<groupSeq, lockKey, hc, expiries, entity, call, quote, reply, stop, ret>>

CycleFail_keeps(p) ==
    /\ pc[p] \in {"fetch", "cell", "place", "commit"}
    /\ rides' = CommittedRides(held[p])
    /\ held' = [held EXCEPT ![p] = NoHeld]
    /\ cy' = [cy EXCEPT ![p] =
                 [NoCycle EXCEPT !.matched = cy[p].matched, !.outcome = "failed"]]
    /\ pc' = [pc EXCEPT ![p] = "release"]
    /\ UNCHANGED <<groups, cabs, groupSeq, lockKey, hc, expiries, entity, call, quote, reply, stop, ret, joined>>

\* an exception in the cycle body: the session closes, the transaction rolls back
CycleFail(p) ==
    /\ pc[p] \in {"fetch", "cell", "place", "commit"}
    /\ held' = [held EXCEPT ![p] = NoHeld]
    /\ cy' = [cy EXCEPT ![p] =
                 [NoCycle EXCEPT !.matched = cy[p].matched, !.outcome = "failed"]]
    /\ pc' = [pc EXCEPT ![p] = "release"]
    /\ UNCHANGED <<rides, groups, cabs, groupSeq, lockKey, hc, expiries, entity, call, quote, reply, stop, ret,
                   joined>>

\* finally: lock.release(); return matched, or let the CancelledError go on
\* through _loop, which does not catch it, and the task ends
CycleRelease(p) ==
    /\ pc[p] = "release"
    /\ lockKey' = lock_release(Token(p))
    /\ pc' = [pc EXCEPT ![p] = IF cy[p].outcome = "cancelled" THEN "exited" ELSE "returned"]
    /\ UNCHANGED <<rides, groups, cabs, groupSeq, held, cy, hc, expiries, entity, call, quote, reply, stop, ret,
                   joined>>

\* _loop: the wait for the interval timed out; next iteration
LoopWait(p) ==
    /\ pc[p] = "returned"
    /\ pc' = [pc EXCEPT ![p] = "wait"]
    /\ cy' = [cy EXCEPT ![p] = NoCycle]
    /\ UNCHANGED <<rides, groups, cabs, groupSeq, held, lockKey, hc, expiries, entity, call, quote, reply, stop, ret,
                   joined>>

AcquireRaise_exits(p) ==
    /\ pc[p] = "wait"
    /\ lockKey' \in {lockKey, lock_acquire(Token(p))}
    /\ pc' = [pc EXCEPT ![p] = "exited"]
    /\ cy' = [cy EXCEPT ![p] = [NoCycle EXCEPT !.outcome = "raised"]]
    /\ UNCHANGED <<rides, groups, cabs, groupSeq, held, hc, expiries, entity, call, quote, reply, stop, ret,
                   joined>>

\* get_redis() or lock.acquire() raises: the call is outside the try block,
\* the exception leaves run_matching_cycle and _loop's except Exception logs
\* it. The SET may or may not have reached the server.
AcquireRaise(p) ==
    /\ pc[p] = "wait"
    /\ lockKey' \in {lockKey, lock_acquire(Token(p))}
    /\ pc' = [pc EXCEPT ![p] = "returned"]
    /\ cy' = [cy EXCEPT ![p] = [NoCycle EXCEPT !.outcome = "raised"]]
    /\ UNCHANGED <<rides, groups, cabs, groupSeq, held, hc, expiries, entity, call, quote, reply, stop, ret,
                   joined>>

\* lock.release() raises in the finally clause: the exception leaves
\* run_matching_cycle and _loop's except Exception logs it. The script may or
\* may not have run on the server.
ReleaseRaise(p) ==
    /\ pc[p] = "release"
    /\ cy[p].outcome # "cancelled"
    /\ lockKey' \in {lockKey, lock_release(Token(p))}
    /\ pc' = [pc EXCEPT ![p] = "returned"]
    /\ cy' = [cy EXCEPT ![p] = [NoCycle EXCEPT !.matched = cy[p].matched, !.outcome = "raised"]]
    /\ UNCHANGED <<rides, groups, cabs, groupSeq, held, hc, expiries, entity, call, quote, reply, stop, ret,
                   joined>>

StopLoop_flag_only(p) ==
    /\ ~stop[p]
    /\ pc[p] # "exited"
    /\ stop' = [stop EXCEPT ![p] = TRUE]
    /\ UNCHANGED <<rides, groups, cabs, groupSeq, held, lockKey, pc, cy, hc, expiries, entity,
                   call, quote, reply, ret, joined>>

\* stop_matching_loop: _stop_event.set(), then _task.cancel(): the task gets
\* a CancelledError at the await it is suspended in. Inside the session block
\* the session closes without a commit and the finally clause is entered; in
\* a Redis command the command may or may not have reached the server; in the
\* wait for the interval the task just ends.
StopLoop(p) ==
    /\ ~stop[p]
    /\ pc[p] # "exited"
    /\ stop' = [stop EXCEPT ![p] = TRUE]
    /\ IF pc[p] \in {"fetch", "cell", "place", "commit"}
       THEN /\ held' = [held EXCEPT ![p] = NoHeld]
            /\ cy' = [cy EXCEPT ![p] =
                         [NoCycle EXCEPT !.matched = cy[p].matched, !.outcome = "cancelled"]]
            /\ pc' = [pc EXCEPT ![p] = "release"]
            /\ lockKey' = lockKey
       ELSE /\ pc' = [pc EXCEPT ![p] = "exited"]
            /\ lockKey' \in CASE pc[p] = "wait" -> {lockKey, lock_acquire(Token(p))}
                              [] pc[p] = "release" -> {lockKey, lock_release(Token(p))}
                              [] OTHER -> {lockKey}
            /\ UNCHANGED <<held, cy>>
    /\ UNCHANGED <<rides, groups, cabs, groupSeq, hc, expiries, entity, call, quote, reply, ret, joined>>

\* ------------------------------------------------------------ cancel_ride
CancelRejected_unknown_only(rid) == rid \notin DOMAIN rides

\* 404 for an unknown ride, 409 when CANCELLED is not an allowed next status
CancelRejected(rid) ==
    IF rid \notin DOMAIN rides THEN TRUE
    ELSE "CANCELLED" \notin RIDE_TRANSITIONS[rides[rid].status]

\* the request ends with an HTTPException; the handler keeps the status code
\* of its last refusal
CancelReject(h, rid) ==
    /\ hc[h].pc = "idle"
    /\ CancelRejected(rid)
    /\ hc' = [hc EXCEPT ![h] =
                 [NoRequest EXCEPT
                     !.rid = rid,
                     !.code = IF rid \notin DOMAIN rides THEN NOT_FOUND ELSE CONFLICT]]
    /\ UNCHANGED <<rides, groups, cabs, groupSeq, held, lockKey, pc, cy, expiries, entity,
                   call, quote, reply, stop, ret, joined>>

\* ride = get_by_id(ride_id); the transition is allowed
CancelRead(h, rid) ==
    /\ hc[h].pc = "idle"
    /\ ~CancelRejected(rid)
    /\ hc' = [hc EXCEPT ![h] =
                 [NoRequest EXCEPT
                     !.pc = IF rides[rid].group # NULL THEN "group" ELSE "commit",
                     !.rid = rid,
                     !.ride = rides[rid]]]
    /\ UNCHANGED <<rides, groups, cabs, groupSeq, held, lockKey, pc, cy, expiries, entity, call, quote, reply, stop, ret,
                   joined>>

\* group = get_by_id(ride.ride_group_id); free the ride's seats and luggage
CancelGroup(h) ==
    /\ hc[h].pc = "group"
    /\ LET group == groups[hc[h].ride.group]
       IN hc' = [hc EXCEPT ![h].pc = "rides",
                           ![h].gorig = group,
                           ![h].gcur =
                               [group EXCEPT
                                   !.seats = Max(0, @ - hc[h].ride.seats),
                                   !.luggage = Max(0, @ - hc[h].ride.luggage)]]
    /\ UNCHANGED <<rides, groups, cabs, groupSeq, held, lockKey, pc, cy, expiries, entity, call, quote, reply, stop, ret,
                   joined>>

\* the session's group row after an autoflush of its changed columns
GroupFlushed(h) ==
    LET g == hc[h].ride.group
    IN IF hc[h].gcur = hc[h].gorig THEN held[h]
       ELSE [held[h] EXCEPT
                !.groups = (g :> Merge(GroupView(h, g), hc[h].gorig, hc[h].gcur)) @@ @]

GroupCanFlush(h) ==
    hc[h].gcur # hc[h].gorig => ~GroupLocked(h, hc[h].ride.group)

\* remaining = get_rides_in_group(group.id); deactivate when none is active
CancelRides(h) ==
    /\ hc[h].pc = "rides"
    /\ GroupCanFlush(h)
    /\ LET g == hc[h].ride.group
           h1 == GroupFlushed(h)
           remaining == get_rides_in_group(h1, g)
           active == {i \in SeqRange(remaining) :
                         i # hc[h].rid /\ RideIn(h1, i).status # "CANCELLED"}
       IN /\ held' = [held EXCEPT ![h] = h1]
          /\ hc' = [hc EXCEPT
                       ![h].gorig = hc[h].gcur,
                       ![h].gcur = IF active = {}
                                   THEN [hc[h].gcur EXCEPT !.status = "INACTIVE"]
                                   ELSE hc[h].gcur,
                       ![h].pc = IF active = {} /\ hc[h].gcur.cab # NULL
                                 THEN "cab" ELSE "commit"]
    /\ UNCHANGED <<rides, groups, cabs, groupSeq, lockKey, pc, cy, expiries, entity, call, quote, reply, stop, ret,
                   joined>>

\* cab = get_by_id(group.cab_id); cab.is_available = True
CancelCab(h) ==
    /\ hc[h].pc = "cab"
    /\ GroupCanFlush(h)
    /\ LET h1 == GroupFlushed(h)
           c == hc[h].gcur.cab
       IN /\ held' = [held EXCEPT ![h] = h1]
          /\ hc' = [hc EXCEPT
                       ![h].gorig = hc[h].gcur,
                       ![h].cab = [avail |-> TRUE, dirty |-> ~CabIn(h1, c)],
                       ![h].pc = "commit"]
    /\ UNCHANGED <<rides, groups, cabs, groupSeq, lockKey, pc, cy, expiries, entity, call, quote, reply, stop, ret,
                   joined>>

\* ride.status = CANCELLED; ride.ride_group_id = None; get_db commits:
\* UPDATE cabs, ride_groups, rides with the changed columns, then COMMIT
CancelCommit(h) ==
    /\ hc[h].pc = "commit"
    /\ GroupCanFlush(h)
    /\ hc[h].cab.dirty => ~CabLocked(h, hc[h].gcur.cab)
    /\ ~RideLocked(h, hc[h].rid)
    /\ LET rid == hc[h].rid
           loaded == hc[h].ride
           cancelled == [loaded EXCEPT !.status = "CANCELLED", !.group = NULL]
           h1 == GroupFlushed(h)
           h2 == [h1 EXCEPT
                     !.cabs = IF hc[h].cab.dirty
                              THEN (hc[h].gcur.cab :> hc[h].cab.avail) @@ @ ELSE @,
                     !.rides = (rid :> Merge(rides[rid], loaded, cancelled)) @@ @]
       IN /\ rides' = CommittedRides(h2)
          /\ groups' = CommittedGroups(h2)
          /\ cabs' = CommittedCabs(h2)
    /\ held' = [held EXCEPT ![h] = NoHeld]
    /\ hc' = [hc EXCEPT ![h] = NoRequest]
    /\ UNCHANGED <<groupSeq, lockKey, pc, cy, expiries, entity, call, quote, reply, stop, ret, joined>>

\* the request fails before its commit: get_db rolls back
CancelFail(h) ==
    /\ hc[h].pc # "idle"
    /\ held' = [held EXCEPT ![h] = NoHeld]
    /\ hc' = [hc EXCEPT ![h] = NoRequest]
    /\ UNCHANGED <<rides, groups, cabs, groupSeq, lockKey, pc, cy, expiries, entity, call, quote, reply, stop, ret,
                   joined>>

\* ------------------------------------------------------------ the system
\* one step of process p's _loop, its acquire having succeeded
ProcStep(p) ==
    \/ CycleAcquire(p)
    \/ CycleFetch(p)
    \/ CycleLoadCell(p)
    \/ CyclePlaceJoin(p)
    \/ CyclePlaceCreate(p)
    \/ CycleCommit(p)
    \/ CycleFail(p)
    \/ CycleRelease(p)
    \/ LoopWait(p)

\* one step of the cancel request handler h serves, the request being one
\* that is not refused
HandlerStep(h) ==
    \/ \E rid \in 1..MaxRides : CancelRead(h, rid)
    \/ CancelGroup(h)
    \/ CancelRides(h)
    \/ CancelCab(h)
    \/ CancelCommit(h)
    \/ CancelFail(h)

\* a stand-alone domain object, built at any status
InitRide ==
    /\ rides = <<>>
    /\ groups = EmptyFn
    /\ cabs = [c \in Cabs |-> TRUE]
    /\ groupSeq = 0
    /\ held = [t \in Tx |-> NoHeld]
    /\ lockKey = NULL
    /\ pc = [p \in Procs |-> "wait"]
    /\ cy = [p \in Procs |-> NoCycle]
    /\ hc = [h \in Handlers |-> NoRequest]
    /\ expiries = 0
    /\ entity \in [Entities -> [status : RideStatus]]
    /\ call = NoCall
    /\ quote = NoQuote
    /\ reply = NoReply
    /\ stop = [p \in Procs |-> FALSE]
    /\ ret = NoRet
    /\ joined = EmptyFn

NextRide == \E e \in Entities, new_status \in RideStatus : TransitionTo(e, new_status)

SpecRide == InitRide /\ [][NextRide]_vars

\* the pricing engine on its own
NextPricing ==
    \/ \E a \in 0..MaxDemand, c \in (0 - 1)..MaxSupply : ComputeSurge(a, c)
    \/ \E body \in Requests, a \in 0..MaxDemand, c \in (0 - 1)..MaxSupply :
          CalculatePrice(body.pickup, body.dropoff, a, c)

SpecPricing == Init /\ [][NextPricing]_vars

\* the calls of the pure domain functions a caller may make
DomainCalls ==
    {[NoRet EXCEPT !.op = "detour_ok", !.args = <<ep, ed, np, nd, tenths>>] :
        ep \in UNION {Stops(n) : n \in 0..MaxExisting},
        ed \in UNION {Stops(n) : n \in 0..MaxExisting},
        np \in Points, nd \in Points, tenths \in 0..MaxTolerance}
    \cup
    {[NoRet EXCEPT !.op = "can_accommodate", !.self = <<so, lo>>,
                   !.args = <<seats, luggage, ms, ml>>] :
        so \in 0..MaxCapacity, lo \in 0..MaxCapacity, seats \in 0..MaxParty,
        luggage \in 0..MaxParty, ms \in 1..MaxCapacity, ml \in 1..MaxCapacity}

\* a call of a pure domain function with its arguments, about to run
InitDomain ==
    /\ rides = <<>>
    /\ groups = EmptyFn
    /\ cabs = [c \in Cabs |-> TRUE]
    /\ groupSeq = 0
    /\ held = [t \in Tx |-> NoHeld]
    /\ lockKey = NULL
    /\ pc = [p \in Procs |-> "wait"]
    /\ cy = [p \in Procs |-> NoCycle]
    /\ hc = [h \in Handlers |-> NoRequest]
    /\ expiries = 0
    /\ entity = [e \in Entities |-> [status |-> "PENDING"]]
    /\ call = NoCall
    /\ quote = NoQuote
    /\ reply = NoReply
    /\ stop = [p \in Procs |-> FALSE]
    /\ ret \in {c \in DomainCalls : c.op = "detour_ok" => Len(c.args[1]) = Len(c.args[2])}
    /\ joined = EmptyFn

NextDomain == DetourOk \/ CanAccommodate

SpecDomain == InitDomain /\ [][NextDomain]_vars

\* create-ride requests one after another, with and without a key
NextCreate == \E body \in KeyedRequests : CreateRide(body)

SpecCreate == Init /\ [][NextCreate]_vars

\* a ride as the store may hold it at each status: in group 1 while MATCHED
\* or ON_TRIP, priced once it has left PENDING
SeedRide(status) ==
    [status |-> status,
     group |-> IF status \in {"MATCHED", "ON_TRIP"} THEN 1 ELSE NULL,
     price |-> IF status \in {"PENDING", "CANCELLED"} THEN NULL ELSE 20000,
     seats |-> 1, luggage |-> 1, pickup |-> 100, dropoff |-> 200, key |-> NULL,
     created |-> 1]

\* the seats the seeded rides occupy in group 1
SeedSeats(statuses) ==
    Cardinality({i \in DOMAIN statuses : statuses[i] \in {"MATCHED", "ON_TRIP"}})

\* a store that holds rides at any status (ON_TRIP and COMPLETED are written
\* by the trip's side of the system, as the seeded COMPLETED ride is), and
\* group 1 with cab 1 when some ride is in it
InitCancel ==
    /\ \E n \in 1..MaxRides :
          \E statuses \in [1..n -> RideStatus] :
              /\ rides = [i \in 1..n |-> SeedRide(statuses[i])]
              /\ groups = IF SeedSeats(statuses) = 0 THEN EmptyFn
                          ELSE 1 :> [cab |-> 1, seats |-> SeedSeats(statuses),
                                     luggage |-> SeedSeats(statuses),
                                     status |-> "ACTIVE", cell |-> ride_h3_cell(100)]
              /\ cabs = [c \in Cabs |-> ~(c = 1 /\ SeedSeats(statuses) > 0)]
              /\ groupSeq = IF SeedSeats(statuses) = 0 THEN 0 ELSE 1
              /\ joined = IF SeedSeats(statuses) = 0 THEN EmptyFn
                          ELSE LET ids == SortedSeq({i \in 1..n :
                                              statuses[i] \in {"MATCHED", "ON_TRIP"}})
                               IN 1 :> [k \in DOMAIN ids |-> [ride |-> ids[k], position |-> k]]
    /\ held = [t \in Tx |-> NoHeld]
    /\ lockKey = NULL
    /\ pc = [p \in Procs |-> "wait"]
    /\ cy = [p \in Procs |-> NoCycle]
    /\ hc = [h \in Handlers |-> NoRequest]
    /\ expiries = 0
    /\ entity = [e \in Entities |-> [status |-> "PENDING"]]
    /\ call = NoCall
    /\ quote = NoQuote
    /\ reply = NoReply
    /\ stop = [p \in Procs |-> FALSE]
    /\ ret = NoRet

\* cancel requests, refused or not, that may overlap
NextCancel ==
    \E h \in Handlers :
        \/ \E rid \in 1..MaxRides : CancelReject(h, rid)
        \/ HandlerStep(h)

SpecCancel == InitCancel /\ [][NextCancel]_vars

\* One matching process whose every step may raise, rides that pool, a
\* lease that may run out, a stop at any moment. The event loop keeps running
\* the task: a release that is due runs, a wait for the interval ends.
NextFault ==
    \/ \E body \in PoolRequests : CreateRide(body)
    \/ CycleSkip(1)
    \/ ProcStep(1)
    \/ AcquireRaise(1)
    \/ ReleaseRaise(1)
    \/ StopLoop(1)
    \/ LeaseExpire

SpecFault ==
    /\ Init
    /\ [][NextFault]_vars
    /\ WF_vars(CycleRelease(1) \/ ReleaseRaise(1))
    /\ WF_vars(LoopWait(1))

\* the bodies of rides picked up in the cell of the airport that fit a cab
SeedBodies ==
    {b \in Requests : /\ ride_h3_cell(b.pickup) = ride_h3_cell(100)
                      /\ b.seats <= DEFAULT_MAX_SEATS
                      /\ b.luggage <= DEFAULT_MAX_LUGGAGE}

\* sequences of 1 to n bodies
BodySeqs(S, lo, hi) == UNION {[1..n -> S] : n \in lo..hi}

RECURSIVE SeqSum(_, _)
SeqSum(bs, field) ==
    IF bs = <<>> THEN 0 ELSE Head(bs)[field] + SeqSum(Tail(bs), field)

\* a MATCHED ride of group g, priced at its position by the cycle that
\* matched total rides with the fleet free
MatchedRide(body, g, position, total) ==
    [create_ride(body, 1) EXCEPT
        !.status = "MATCHED",
        !.group = g,
        !.price = calculate_price(body.pickup, body.dropoff, position, total, NumCabs)]

\* the group row of members bs
GroupOf(bs, cab) ==
    [cab |-> cab, seats |-> SeqSum(bs, "seats"), luggage |-> SeqSum(bs, "luggage"),
     status |-> "ACTIVE", cell |-> ride_h3_cell(bs[1].pickup)]

\* n rides from id first on, committed to a group at positions 1 to n
JoinedInOrder(first, n) == [k \in 1..n |-> [ride |-> first + k - 1, position |-> k]]

\* a store stocked by one transaction, as seed.py does it, so that all its
\* rides have one created_at: group 1 with cab 1 and one or two rides,
\* possibly group 2 without a cab and with one ride, and rides waiting to be
\* matched
InitMatch ==
    /\ \E g1 \in BodySeqs(SeedBodies, 1, MaxMembers), g2 \in BodySeqs(SeedBodies, 0, 1),
          waiting \in BodySeqs(Requests, 1, MaxWaiting) :
          LET total == Len(g1) + Len(g2)
          IN /\ SeqSum(g1, "seats") <= DEFAULT_MAX_SEATS
             /\ SeqSum(g1, "luggage") <= DEFAULT_MAX_LUGGAGE
             /\ \A i \in DOMAIN waiting : Valid(waiting[i])
             /\ rides = [i \in DOMAIN g1 |-> MatchedRide(g1[i], 1, i, total)]
                          \o [i \in DOMAIN g2 |-> MatchedRide(g2[i], 2, i, total)]
                          \o [i \in DOMAIN waiting |-> create_ride(waiting[i], 1)]
             /\ groups = IF g2 = <<>> THEN 1 :> GroupOf(g1, 1)
                         ELSE (1 :> GroupOf(g1, 1)) @@ (2 :> GroupOf(g2, NULL))
             /\ groupSeq = IF g2 = <<>> THEN 1 ELSE 2
             /\ joined = IF g2 = <<>> THEN 1 :> JoinedInOrder(1, Len(g1))
                         ELSE (1 :> JoinedInOrder(1, Len(g1)))
                                 @@ (2 :> JoinedInOrder(Len(g1) + 1, 1))
    /\ cabs = [c \in Cabs |-> c # 1]
    /\ held = [t \in Tx |-> NoHeld]
    /\ lockKey = NULL
    /\ pc = [p \in Procs |-> "wait"]
    /\ cy = [p \in Procs |-> NoCycle]
    /\ hc = [h \in Handlers |-> NoRequest]
    /\ expiries = 0
    /\ entity = [e \in Entities |-> [status |-> "PENDING"]]
    /\ call = NoCall
    /\ quote = NoQuote
    /\ reply = NoReply
    /\ stop = [p \in Procs |-> FALSE]
    /\ ret = NoRet

\* One matching process and one cancel request at a time over a stocked store
NextMatch ==
    \/ ProcStep(1)
    \/ HandlerStep(NumProcs + 1)

SpecMatch == InitMatch /\ [][NextMatch]_vars

\* the steps of a loop whose cycles run to their commit
LoopStep(p) ==
    \/ CycleAcquire(p)
    \/ CycleFetch(p)
    \/ CycleLoadCell(p)
    \/ CyclePlaceJoin(p)
    \/ CyclePlaceCreate(p)
    \/ CycleCommit(p)
    \/ CycleRelease(p)
    \/ LoopWait(p)

\* the steps that take a cancel request in progress to its commit
CancelProgress(h) ==
    \/ CancelGroup(h)
    \/ CancelRides(h)
    \/ CancelCab(h)
    \/ CancelCommit(h)

\* One matching process whose loop keeps running and whose cycles commit;
\* ride submissions and one cancel request at a time. _loop starts a cycle
\* every interval, the event loop runs every task that can run, and
\* PostgreSQL hands a row to the transaction waiting for it when its holder
\* ends.
NextLive ==
    \/ \E body \in Requests : CreateRide(body)
    \/ LoopStep(1)
    \/ HandlerStep(NumProcs + 1)

SpecLive ==
    /\ Init
    /\ [][NextLive]_vars
    /\ SF_vars(LoopStep(1))
    /\ WF_vars(CancelProgress(NumProcs + 1))

\* Create-ride requests that overlap, with and without an idempotency key.
IdemRequests == {[b EXCEPT !.key = k] : b \in PoolRequests, k \in Keys \cup {NULL}}

NextIdem ==
    \E h \in Handlers :
        \/ \E body \in IdemRequests : CreateLookup(h, body)
        \/ CreateInsert(h)
        \/ CreateConflict(h)
        \/ CreateCommit(h)

SpecIdem == Init /\ [][NextIdem]_vars

\* One matching process that the application stops at any moment.
NextStop ==
    \/ \E body \in Requests : CreateRide(body)
    \/ ProcStep(1)
    \/ StopLoop(1)

SpecStop == Init /\ [][NextStop]_vars

\* One matching process, overlapping cancel requests, every kind of ride.
Next ==
    \/ \E body \in Requests : CreateRide(body)
    \/ ProcStep(1)
    \/ \E h \in Handlers : HandlerStep(h)

Spec == Init /\ [][Next]_vars

\* Several matching processes whose leases may run out, one cancel request
\* at a time, rides that pool.
NextLease ==
    \/ \E body \in PoolRequests : CreateRide(body)
    \/ \E p \in Procs : CycleSkip(p) \/ ProcStep(p)
    \/ HandlerStep(NumProcs + 1)
    \/ LeaseExpire

SpecLease == Init /\ [][NextLease]_vars

\* ------------------------------------------------------------- properties
\* process p is inside the matching section: its acquire succeeded and its
\* release has not run yet
InSection(p) == pc[p] \in {"fetch", "cell", "place", "commit", "release"}

\* C1: in every reachable state at most one process is inside the matching
\* section of run_matching_cycle, also when a lease runs out under a cycle.
C1_OneCycleAtATime ==
    \A p \in Procs, q \in Procs : InSection(p) /\ InSection(q) => p = q

\* C3: once a run_matching_cycle call that acquired the lock has returned,
\* whether it found nothing pending, committed, or failed in its body, the
\* lock key does not hold that cycle's token.
C3_ReleasedOnReturn ==
    \A p \in Procs :
        pc[p] = "returned" /\ cy[p].outcome \in {"empty", "committed", "failed"}
            => lockKey # Token(p)

\* a cycle that failed after placing a ride has returned, its lease not run out
C3_Witness ==
    \E p \in Procs :
        /\ pc[p] = "returned"
        /\ cy[p].outcome = "failed"
        /\ cy[p].matched > 0
        /\ expiries = 0

\* the pairs (current status, new status) the lifecycle allows
AllowedPairs ==
    { <<"PENDING", "MATCHED">>, <<"PENDING", "CANCELLED">>,
      <<"MATCHED", "ON_TRIP">>, <<"MATCHED", "CANCELLED">>,
      <<"ON_TRIP", "COMPLETED">> }

\* C7: Ride.transition_to(new) returns with status = new exactly for the five
\* allowed pairs; for every other pair, a status to itself included, it raises
\* InvalidStateTransition and the status stays as it was.
C7_TransitionTable ==
    call # NoCall =>
        IF <<call.before, call.new_status>> \in AllowedPairs
        THEN ~call.raised /\ entity[call.self].status = call.new_status
        ELSE call.raised /\ entity[call.self].status = call.before

\* a CANCELLED ride was asked to become CANCELLED again, and the call raised
C7_Witness ==
    /\ call.raised
    /\ call.before = "CANCELLED"
    /\ call.new_status = "CANCELLED"
    /\ entity[call.self].status = "CANCELLED"

\* a step of process p's cycle
CycleStepOf(p) == pc'[p] # pc[p] \/ cy'[p] # cy[p] \/ held'[p] # held[p]

\* the step is the COMMIT of p's cycle
IsCommit(p) == pc[p] = "commit" /\ cy'[p].outcome = "committed"

\* C2: a matching cycle is all-or-nothing: no step before its commit changes
\* a stored ride, group or cab, a failure drops every row it wrote, and the
\* commit stores every placed ride's status, group and price, every group's
\* occupancy, every new group and every taken cab together.
C2_AllOrNothing ==
    [][\A p \in Procs :
          CycleStepOf(p) =>
              IF IsCommit(p)
              THEN /\ \A r \in DOMAIN cy[p].placed :
                         /\ rides'[r].status = "MATCHED"
                         /\ rides'[r].group = cy[p].placed[r].group
                         /\ rides'[r].price = cy[p].placed[r].price
                   /\ \A g \in DOMAIN held[p].groups :
                         g \in DOMAIN groups' /\ groups'[g] = held[p].groups[g]
                   /\ \A c \in DOMAIN held[p].cabs \cup DirtyCabs(cy[p]) : ~cabs'[c]
              ELSE /\ rides' = rides /\ groups' = groups /\ cabs' = cabs
                   /\ cy'[p].outcome = "failed" => held'[p] = NoHeld]_vars

\* a cycle failed after it had flushed a placed ride, and the stores show no
\* trace of it
C2_Witness ==
    \E p \in Procs :
        /\ cy[p].outcome = "failed"
        /\ cy[p].matched = 2
        /\ groupSeq > 0
        /\ groups = EmptyFn
        /\ \A r \in DOMAIN rides : rides[r].status = "PENDING"
        /\ \A c \in Cabs : cabs[c]

\* seats and luggage of a set of rides
RECURSIVE SumSeats(_)
SumSeats(S) ==
    IF S = {} THEN 0
    ELSE LET r == CHOOSE x \in S : TRUE IN rides[r].seats + SumSeats(S \ {r})

RECURSIVE SumLuggage(_)
SumLuggage(S) ==
    IF S = {} THEN 0
    ELSE LET r == CHOOSE x \in S : TRUE IN rides[r].luggage + SumLuggage(S \ {r})

\* the rides p's running cycle has put in group g
PlacedIn(p, g) == {r \in DOMAIN cy[p].placed : cy[p].placed[r].group = g}

\* what a group held before p's cycle touched it
StoredSeats(g) == IF g \in DOMAIN groups THEN groups[g].seats ELSE 0
StoredLuggage(g) == IF g \in DOMAIN groups THEN groups[g].luggage ELSE 0

\* C5: within one cycle a fetched ride is placed at most once, in one group,
\* with a price and a group reference, and its seats and luggage are added to
\* that group's occupancy only; the commit leaves each fetched ride either
\* as it was or MATCHED with a non-null price and group.
C5_PlacedOnce ==
    /\ [](\A p \in Procs :
            pc[p] \in {"cell", "place", "commit"} =>
                /\ \A i \in DOMAIN cy[p].log, j \in DOMAIN cy[p].log :
                      cy[p].log[i][1] = cy[p].log[j][1] => i = j
                /\ {cy[p].log[i][1] : i \in DOMAIN cy[p].log} = DOMAIN cy[p].placed
                /\ DOMAIN cy[p].placed \subseteq SeqRange(cy[p].pending)
                /\ cy[p].matched = Cardinality(DOMAIN cy[p].placed)
                /\ \A r \in DOMAIN cy[p].placed :
                      /\ cy[p].placed[r].group # NULL
                      /\ cy[p].placed[r].price # NULL
                /\ \A g \in DOMAIN held[p].groups :
                      /\ held[p].groups[g].seats =
                            StoredSeats(g) + SumSeats(PlacedIn(p, g))
                      /\ held[p].groups[g].luggage =
                            StoredLuggage(g) + SumLuggage(PlacedIn(p, g)))
    /\ [][\A p \in Procs :
            IsCommit(p) =>
                \A r \in SeqRange(cy[p].pending) :
                    \/ r \notin DOMAIN cy[p].placed /\ rides'[r] = rides[r]
                    \/ /\ r \in DOMAIN cy[p].placed
                       /\ rides'[r].status = "MATCHED"
                       /\ rides'[r].price # NULL
                       /\ rides'[r].group # NULL]_vars

\* a cycle committed two rides it had fetched as PENDING into one group
C5_Witness ==
    \E p \in Procs :
        /\ pc[p] = "release"
        /\ cy[p].outcome = "committed"
        /\ cy[p].matched = 2
        /\ \E g \in DOMAIN groups :
              /\ groups[g].seats = SumSeats(DOMAIN rides)
              /\ \A r \in DOMAIN rides :
                    /\ rides[r].status = "MATCHED"
                    /\ rides[r].group = g
                    /\ rides[r].price # NULL

\* C4: every stored group that holds a cab has seats_occupied <= the cab's
\* max_seats and luggage_occupied <= its max_luggage, also a group the matcher
\* has just created for a ride larger than the cab.
C4_WithinCapacity ==
    \A g \in DOMAIN groups :
        groups[g].cab # NULL =>
            /\ groups[g].seats <= CabMaxSeats(groups[g].cab)
            /\ groups[g].luggage <= CabMaxLuggage(groups[g].cab)

\* C6: every change of a ride's stored status is a transition the table
\* allows; a CANCELLED or COMPLETED ride never changes status again.
C6_LegalTransitions ==
    [][\A r \in DOMAIN rides :
          rides'[r].status # rides[r].status =>
              rides'[r].status \in RIDE_TRANSITIONS[rides[r].status]]_vars

\* no transaction is in flight
Quiescent ==
    /\ \A t \in Tx : held[t] = NoHeld
    /\ \A p \in Procs : pc[p] \in {"wait", "release", "returned"}
    /\ \A h \in Handlers : hc[h].pc = "idle"

\* the rides that reference group g and are not cancelled
Members(g) == {r \in DOMAIN rides : rides[r].group = g /\ rides[r].status # "CANCELLED"}

\* C8: once all transactions have committed, a group is INACTIVE exactly when
\* no non-cancelled ride references it, and the cab of an INACTIVE group is
\* available again unless an ACTIVE group has taken it since.
C8_InactiveIffEmpty ==
    Quiescent =>
        \A g \in DOMAIN groups :
            /\ groups[g].status = "INACTIVE" <=> Members(g) = {}
            /\ groups[g].status = "INACTIVE" /\ groups[g].cab # NULL =>
                  \/ cabs[groups[g].cab]
                  \/ \E k \in DOMAIN groups :
                        groups[k].status = "ACTIVE" /\ groups[k].cab = groups[g].cab

\* C9: no cab is referenced by two ACTIVE groups, and a cab an ACTIVE group
\* references is not available.
C9_OneGroupPerCab ==
    \A g \in DOMAIN groups :
        groups[g].status = "ACTIVE" /\ groups[g].cab # NULL =>
            /\ ~cabs[groups[g].cab]
            /\ \A k \in DOMAIN groups :
                  groups[k].status = "ACTIVE" /\ groups[k].cab = groups[g].cab => k = g

\* C10: a ride with a group reference is MATCHED or ON_TRIP, and a PENDING
\* ride has no price.
C10_GroupOnlyWhileMatched ==
    \A r \in DOMAIN rides :
        /\ rides[r].group # NULL => rides[r].status \in {"MATCHED", "ON_TRIP"}
        /\ rides[r].status = "PENDING" => rides[r].price = NULL

\* process p's call of lock.acquire() returns in this step
AcquireStepOf(p) == pc[p] = "wait" /\ pc'[p] \in {"fetch", "returned"}

\* C11: DistributedLock.acquire returns true exactly when the key was unset
\* at the call, and then the key holds the caller's token; while a token is
\* stored an acquire returns false and leaves the stored token as it was.
C11_AcquireIffUnset ==
    [][\A p \in Procs :
          AcquireStepOf(p) =>
              /\ pc'[p] = "fetch" <=> lockKey = NULL
              /\ pc'[p] = "fetch" => lockKey' = Token(p)
              /\ pc'[p] = "returned" => lockKey' = lockKey /\ lockKey' # Token(p)]_vars

\* an acquire has just failed against the token of a process that is still
\* in its matching section
C11_Witness ==
    \E p \in Procs, q \in Procs :
        /\ p # q
        /\ pc[q] = "returned"
        /\ cy[q].outcome = "skipped"
        /\ InSection(p)
        /\ lockKey = Token(p)

\* process p's call of lock.release() returns in this step
ReleaseStepOf(p) == pc[p] = "release" /\ pc'[p] = "returned"

\* C12: DistributedLock.release removes the key only when it holds the
\* caller's token; an unset key or another holder's token is left unchanged.
C12_ReleaseOwnTokenOnly ==
    [][\A p \in Procs :
          ReleaseStepOf(p) =>
              /\ lockKey = Token(p) => lockKey' = NULL
              /\ lockKey # Token(p) => lockKey' = lockKey]_vars

\* a process whose lease ran out has released, and the key still holds the
\* token of the process that acquired after it
C12_Witness ==
    \E p \in Procs, q \in Procs :
        /\ p # q
        /\ expiries > 0
        /\ pc[p] = "returned"
        /\ cy[p].outcome \in {"empty", "committed", "failed"}
        /\ InSection(q)
        /\ pc[q] # "release"
        /\ rides # <<>>
        /\ \A r \in DOMAIN rides : rides[r].status = "PENDING"
        /\ lockKey = Token(q)

\* price is the fare of the route under the surge <<n, d>> and a discount of
\* percent, rounded to 1/100
PricedAt(price, pickup, dropoff, percent, surge) ==
    LET fare == BASE_FARE + Abs(pickup - dropoff) * RATE_PER_UNIT
    IN 2 * Abs(price * 100 * surge[2] - fare * surge[1] * (100 - percent))
           <= 100 * surge[2]

\* p's cycle fetched exactly two rides, of one cell with no ACTIVE group and
\* with a cab available, that fit a cab together and pass the detour check
PoolablePair(p) ==
    /\ Len(cy[p].pending) = 2
    /\ LET a == rides[cy[p].pending[1]]
           b == rides[cy[p].pending[2]]
       IN /\ ride_h3_cell(a.pickup) = ride_h3_cell(b.pickup)
          /\ a.seats + b.seats <= DEFAULT_MAX_SEATS
          /\ a.luggage + b.luggage <= DEFAULT_MAX_LUGGAGE
          /\ detour_ok(<<a.pickup>>, <<a.dropoff>>, b.pickup, b.dropoff,
                       TOLERANCE_TENTHS)
    /\ cy[p].acabs >= 1
    /\ \A g \in SeqRange(cy[p].cand) : g \notin DOMAIN groups

\* C13: one cycle over two PENDING rides of a cell that has no ACTIVE group
\* and an available cab, the rides fitting the cab and passing the detour
\* check, commits both MATCHED in one new group: the earlier ride priced at
\* position 1 (0%), the later at position 2 (20%), the cab unavailable.
C13_PairPooled ==
    [][\A p \in Procs :
          IsCommit(p) /\ PoolablePair(p) =>
              LET r1 == cy[p].pending[1]
                  r2 == cy[p].pending[2]
                  g == rides'[r1].group
                  surge == compute_surge(cy[p].areq, cy[p].acabs)
              IN /\ rides'[r1].status = "MATCHED"
                 /\ rides'[r2].status = "MATCHED"
                 /\ g # NULL
                 /\ rides'[r2].group = g
                 /\ g \notin DOMAIN groups
                 /\ groups'[g].status = "ACTIVE"
                 /\ groups'[g].seats = rides[r1].seats + rides[r2].seats
                 /\ groups'[g].cab # NULL
                 /\ ~cabs'[groups'[g].cab]
                 /\ PricedAt(rides'[r1].price, rides[r1].pickup, rides[r1].dropoff,
                             0, surge)
                 /\ PricedAt(rides'[r2].price, rides[r2].pickup, rides[r2].dropoff,
                             20, surge)]_vars

\* a cycle has committed a one-seat and a three-seat ride into one group
C13_Witness ==
    \E p \in Procs :
        /\ pc[p] = "release"
        /\ cy[p].outcome = "committed"
        /\ cy[p].matched = 2
        /\ Len(rides) = 2
        /\ rides[1].seats = 1
        /\ rides[2].seats = 3
        /\ rides[1].status = "MATCHED"
        /\ rides[2].status = "MATCHED"
        /\ rides[1].group = rides[2].group
        /\ rides[2].price < rides[1].price
        /\ DOMAIN groups = {rides[1].group}
        /\ groups[rides[1].group].seats = 4

\* ride r opened, in p's cycle, a new group that got no cab
OpenedCablessGroup(p, r) ==
    /\ r \in DOMAIN cy[p].placed
    /\ LET g == cy[p].placed[r].group
       IN /\ g \in DOMAIN held[p].groups
          /\ g \notin DOMAIN groups
          /\ held[p].groups[g].cab = NULL
          /\ \E i \in DOMAIN cy[p].log :
                /\ cy[p].log[i] = <<r, g>>
                /\ \A j \in 1..(i - 1) : cy[p].log[j][2] # g

\* C14: a PENDING ride that no group of its cell accepts and for which no cab
\* is available is still PENDING, with no group and no price, after the
\* cycle commits.
C14_NoCabStaysPending ==
    [][\A p \in Procs :
          IsCommit(p) =>
              \A r \in SeqRange(cy[p].pending) :
                  OpenedCablessGroup(p, r) =>
                      /\ rides'[r].status = "PENDING"
                      /\ rides'[r].group = NULL
                      /\ rides'[r].price = NULL]_vars

\* C15: every ride a cycle matches is priced with the surge of the PENDING
\* rides and the available cabs counted at its start, 3.0 when no cab was
\* available.
C15_SurgeOfSnapshot ==
    [][\A p \in Procs :
          IsCommit(p) =>
              \A r \in DOMAIN cy[p].placed :
                  \E k \in 1..3 :
                      PricedAt(rides'[r].price, rides[r].pickup, rides[r].dropoff,
                               Discount(k), compute_surge(cy[p].areq, cy[p].acabs))]_vars

\* C16: compute_surge(a, c) for a >= 0 is 3.0 when c <= 0, else 1.0 when
\* a <= c, else 3.0 when a >= 3c, else a / c; it always lies in [1.0, 3.0].
C16_SurgeClamped ==
    quote.op = "surge" =>
        LET a == quote.active_requests
            c == quote.available_cabs
            n == quote.surge[1]
            d == quote.surge[2]
        IN /\ d > 0
           /\ d <= n /\ n <= 3 * d
           /\ c <= 0 => n = 3 * d
           /\ c > 0 /\ a <= c => n = d
           /\ c > 0 /\ a >= 3 * c => n = 3 * d
           /\ c > 0 /\ a > c /\ a < 3 * c => n * c = a * d

\* a surge strictly between the floor and the cap was returned
C16_Witness ==
    /\ quote.op = "surge"
    /\ quote.active_requests = 3
    /\ quote.available_cabs = 2
    /\ 2 * quote.surge[1] = 3 * quote.surge[2]

\* C17: for a fixed route, fares and surge the price carries a discount of 0%
\* at position 1, 20% at position 2 and 30% at every position from 3 on: it
\* falls from 1 to 2 and from 2 to 3 and stays the same above 3.
C17_DiscountByPosition ==
    quote.op = "price" =>
        /\ PricedAt(quote.prices[1], quote.pickup, quote.dropoff, 0, quote.surge)
        /\ PricedAt(quote.prices[2], quote.pickup, quote.dropoff, 20, quote.surge)
        /\ \A k \in 3..MaxPosition :
              PricedAt(quote.prices[k], quote.pickup, quote.dropoff, 30, quote.surge)
        /\ quote.prices[2] < quote.prices[1]
        /\ quote.prices[3] < quote.prices[2]
        /\ \A k \in 4..MaxPosition : quote.prices[k] = quote.prices[3]

\* a route of 10 km was priced 200.00, 160.00 and 140.00 at positions 1 to 3
\* and 140.00 at position 5
C17_Witness ==
    /\ quote.op = "price"
    /\ quote.surge = <<1, 1>>
    /\ quote.prices[1] = 20000
    /\ quote.prices[2] = 16000
    /\ quote.prices[3] = 14000
    /\ quote.prices[MaxPosition] = 14000

\* C18: of create-ride requests served one after another, those with the same
\* non-empty idempotency key return the id of one ride, the only one stored
\* with the key; a request without a key stores a new PENDING ride.
C18_Idempotent ==
    /\ [](/\ \A i \in DOMAIN rides, j \in DOMAIN rides :
                rides[i].key # NULL /\ rides[i].key = rides[j].key => i = j
          /\ reply.key # NULL =>
                reply.id \in DOMAIN rides /\ rides[reply.id].key = reply.key)
    /\ [][reply'.n # reply.n =>
            IF reply'.key # NULL /\ \E i \in DOMAIN rides : rides[i].key = reply'.key
            THEN rides' = rides /\ rides[reply'.id].key = reply'.key
            ELSE /\ Len(rides') = Len(rides) + 1
                 /\ reply'.id = Len(rides')
                 /\ rides'[reply'.id].status = "PENDING"
                 /\ rides'[reply'.id].key = reply'.key
                 /\ \A i \in DOMAIN rides : rides'[i] = rides[i]]_vars

\* the second request with a key was answered with the ride of the first
C18_Witness ==
    /\ reply.n = 2
    /\ reply.key # NULL
    /\ reply.id = 1
    /\ Len(rides) = 1
    /\ rides[1].key = reply.key

\* C19: a cancel request for an unknown ride is refused with 404, one for an
\* ON_TRIP, COMPLETED or CANCELLED ride with 409, and a refusal changes no
\* ride, group or cab; a request for a PENDING or MATCHED ride is not refused
\* and its commit leaves the ride CANCELLED.
C19_CancelRefusals ==
    [][\A h \in Handlers :
          /\ hc'[h] # hc[h] /\ hc'[h].code # 0 =>
                /\ hc'[h].rid \notin DOMAIN rides => hc'[h].code = 404
                /\ hc'[h].rid \in DOMAIN rides =>
                      /\ hc'[h].code = 409
                      /\ rides[hc'[h].rid].status \in {"ON_TRIP", "COMPLETED", "CANCELLED"}
                /\ rides' = rides /\ groups' = groups /\ cabs' = cabs
          /\ hc[h].pc = "idle" /\ hc'[h].pc # "idle" =>
                /\ hc'[h].rid \in DOMAIN rides
                /\ rides[hc'[h].rid].status \in {"PENDING", "MATCHED"}
          /\ hc[h].pc = "idle" /\ hc[h].code = 0 /\ hc'[h] = hc[h] =>
                \A rid \in DOMAIN rides :
                    rides[rid].status \in {"PENDING", "MATCHED"} => ENABLED CancelRead(h, rid)
          /\ hc[h].pc = "commit" /\ hc'[h].pc = "idle" =>
                \/ rides'[hc[h].rid].status = "CANCELLED"
                \/ rides' = rides /\ groups' = groups /\ cabs' = cabs]_vars

\* one cancel request has been refused with 409 for a COMPLETED ride and
\* another with 404 for an id the store does not hold
C19_Witness ==
    \E h1, h2 \in Handlers :
        /\ hc[h1].code = 409
        /\ hc[h1].rid \in DOMAIN rides
        /\ rides[hc[h1].rid].status = "COMPLETED"
        /\ hc[h2].code = 404
        /\ hc[h2].rid \notin DOMAIN rides

\* C20: a stop that arrives while a matching cycle is between its lock
\* acquire and its commit leaves the cycle where it is, with what it has
\* read and written, and the loop never exits out of a cycle that was cut
\* short.
C20_StopWaitsForCycle ==
    [][\A p \in Procs :
          /\ (~stop[p] /\ stop'[p] /\ pc[p] \in {"fetch", "cell", "place", "commit"}) =>
                (pc'[p] = pc[p] /\ cy'[p] = cy[p] /\ held'[p] = held[p])
          /\ (pc[p] # "exited" /\ pc'[p] = "exited") =>
                cy[p].outcome # "cancelled"]_vars

\* C21: an exception at any point of a matching cycle (lock client, acquire,
\* body, commit, release) does not end the loop: while the stop signal is not
\* set the process is never exited, holds no row and no session state once
\* the cycle is over, and after a cycle that failed or raised it comes to
\* attempt another cycle, which starts with empty locals and an empty session.
C21_LoopSurvivesExceptions ==
    /\ [](\A p \in Procs :
            /\ ~stop[p] => pc[p] # "exited"
            /\ pc[p] \in {"wait", "returned"} => held[p] = NoHeld
            /\ pc[p] = "wait" => cy[p] = NoCycle
            /\ cy[p].outcome \in {"failed", "raised"} =>
                  /\ cy[p].pending = <<>> /\ cy[p].placed = EmptyFn
                  /\ cy[p].unflushed = {} /\ held[p] = NoHeld)
    /\ \A p \in {1} :
          (cy[p].outcome \in {"failed", "raised"}) ~> (pc[p] = "wait" \/ stop[p])

\* a cycle placed a ride, failed before its commit, and its release raised
\* with the key left on the server: the loop is in its wait, not stopped, and
\* the ride is still PENDING in the store
C21_Witness ==
    /\ pc[1] = "returned"
    /\ ~stop[1]
    /\ cy[1].outcome = "raised"
    /\ cy[1].matched > 0
    /\ lockKey = Token(1)
    /\ \A i \in DOMAIN rides : rides[i].status = "PENDING"

\* C22: when a process's acquire fails because another holder's token is
\* stored, its run_matching_cycle returns 0 having read and changed no ride,
\* group or cab, without raising and without touching the stored token, and
\* the loop is then in the same wait as after a run.
C22_SkipTouchesNothing ==
    /\ [](\A p \in Procs :
            cy[p].outcome = "skipped" =>
                /\ pc[p] = "returned"
                /\ cy[p] = [NoCycle EXCEPT !.outcome = "skipped"]
                /\ held[p] = NoHeld
                /\ ENABLED LoopWait(p))
    /\ [][\A p \in Procs :
            (pc[p] = "wait" /\ pc'[p] # "wait" /\ lockKey \notin {NULL, Token(p)}) =>
                /\ pc'[p] = "returned"
                /\ cy'[p].outcome = "skipped"
                /\ cy'[p].matched = 0
                /\ lockKey' = lockKey
                /\ rides' = rides /\ groups' = groups /\ cabs' = cabs
                /\ groupSeq' = groupSeq /\ held' = held]_vars

\* a process has skipped its cycle while the holder of the lock is placing
\* rides, with rows locked and a PENDING ride in the store
C22_Witness ==
    \E p \in Procs, q \in Procs :
        /\ p # q
        /\ pc[p] = "returned"
        /\ cy[p].outcome = "skipped"
        /\ pc[q] \in {"place", "commit"}
        /\ held[q] # NoHeld
        /\ lockKey = Token(q)
        /\ \E i \in DOMAIN rides : rides[i].status = "PENDING"

\* C23: a stop that arrives while the loop is in its wait between iterations
\* ends the loop there, with no further acquire and no further cycle; a wait
\* that times out is followed by exactly one run_matching_cycle call (one
\* acquire attempt, one outcome) before the loop waits again.
C23_StopInWaitOrOneMoreCycle ==
    /\ [](\A p \in Procs :
            /\ pc[p] = "wait" => cy[p].outcome = "none" /\ ~stop[p]
            /\ pc[p] = "returned" => cy[p].outcome # "none"
            /\ pc[p] = "exited" => ~ENABLED (ProcStep(p) \/ CycleSkip(p) \/ AcquireRaise(p)))
    /\ [][\A p \in Procs :
            /\ (pc[p] = "returned" /\ ~stop[p] /\ stop'[p]) =>
                  (pc'[p] = "exited" /\ lockKey' = lockKey /\ cy'[p] = cy[p])
            /\ (pc[p] = "returned" /\ pc'[p] # "returned") =>
                  \/ pc'[p] = "exited" /\ stop'[p]
                  \/ pc'[p] = "wait" /\ ~stop'[p] /\ cy'[p] = NoCycle
            /\ (pc[p] = "wait" /\ pc'[p] # "wait") =>
                  \/ pc'[p] = "fetch" /\ lockKey' = Token(p)
                  \/ pc'[p] = "returned" /\ cy'[p].outcome \in {"skipped", "raised"}
                  \/ pc'[p] = "exited" /\ stop'[p]
            /\ (pc[p] # "returned" /\ pc'[p] = "returned") =>
                  pc[p] \in {"wait", "release"}
            /\ pc[p] = "exited" => pc'[p] = "exited"]_vars

\* the loop was stopped in the wait that followed a skipped or raised cycle
\* and has exited, a PENDING ride being in the store
C23_Witness ==
    /\ stop[1]
    /\ pc[1] = "exited"
    /\ cy[1].outcome \in {"skipped", "raised"}
    /\ \E i \in DOMAIN rides : rides[i].status = "PENDING"

\* C24: once stop_matching_loop has returned, which it does when the loop
\* task has ended, no matching cycle of the process is running and the lock
\* key does not hold the process's token.
C24_StoppedHoldsNothing ==
    \A p \in Procs :
        (stop[p] /\ pc[p] = "exited") =>
            /\ ~InSection(p)
            /\ held[p] = NoHeld
            /\ lockKey # Token(p)

\* C25: detour_ok with no existing pickup and no existing dropoff returns
\* true for every new pickup, new dropoff and tolerance >= 0: the passenger's
\* shared leg is the one hop from its pickup to its dropoff, its direct
\* distance.
C25_SinglePassengerOk ==
    (ret.op = "detour_ok" /\ ret.done /\ ret.args[1] = <<>> /\ ret.args[2] = <<>>) =>
        /\ ret.out
        /\ shared_leg(<<ret.args[3]>>, <<ret.args[4]>>, 1)
              = haversine_km(ret.args[3], ret.args[4])

\* detour_ok has returned true for a lone passenger with a route of some
\* length at tolerance 0
C25_Witness ==
    /\ ret.op = "detour_ok"
    /\ ret.done
    /\ ret.args[1] = <<>> /\ ret.args[2] = <<>>
    /\ haversine_km(ret.args[3], ret.args[4]) >= MIN_DIRECT
    /\ ret.args[5] = 0
    /\ ret.out

\* C26: RideGroup.can_accommodate returns true exactly when seats_occupied +
\* seats <= max_seats and luggage_occupied + luggage <= max_luggage, an exact
\* fit included, and leaves the group as it was.
C26_CanAccommodate ==
    (ret.op = "can_accommodate" /\ ret.done) =>
        /\ ret.out <=> (/\ ret.self[1] + ret.args[1] <= ret.args[3]
                        /\ ret.self[2] + ret.args[2] <= ret.args[4])
        /\ (ret.self[1] + ret.args[1] = ret.args[3] /\ ret.self[2] + ret.args[2] = ret.args[4])
              => ret.out
        /\ (ret.self[1] + ret.args[1] > ret.args[3] \/ ret.self[2] + ret.args[2] > ret.args[4])
              => ~ret.out
        /\ ret.after = ret.self

\* can_accommodate has accepted an exact fit: a group with 3 seats and 2 bags
\* taken, one more of each asked, limits 4 and 3
C26_Witness ==
    /\ ret.op = "can_accommodate"
    /\ ret.done
    /\ ret.self = <<3, 2>>
    /\ ret.args = <<1, 1, 4, 3>>
    /\ ret.out

\* process p places the head of its queue in this step
PlaceStepOf(p) == pc[p] = "place" /\ Len(cy'[p].log) = Len(cy[p].log) + 1

\* C27: the matcher scans the candidate groups of the cell in list order,
\* the groups loaded from the store first and then the groups this cycle
\* created, in creation order; a ride joins the first group that passes both
\* the capacity check and the detour check, never a later one, and a new
\* group is created exactly when no candidate passes both.
C27_FirstFit ==
    /\ [](\A p \in Procs : \A i \in DOMAIN cy[p].cand, j \in DOMAIN cy[p].cand :
            (i < j /\ cy[p].cand[i] \notin DOMAIN groups) =>
                (cy[p].cand[j] \notin DOMAIN groups /\ cy[p].cand[i] < cy[p].cand[j]))
    /\ [][\A p \in Procs :
            PlaceStepOf(p) =>
                LET r == Head(cy[p].queue)
                    cand == cy[p].cand
                    g == cy'[p].log[Len(cy'[p].log)][2]
                    ok == {k \in DOMAIN cand : Accepts(p, cand[k], r)}
                IN /\ cy'[p].log[Len(cy'[p].log)][1] = r
                   /\ ok # {} =>
                         /\ \E k \in ok : g = cand[k] /\ \A j \in ok : k <= j
                         /\ cy'[p].cand = cand
                         /\ groupSeq' = groupSeq
                   /\ ok = {} =>
                         /\ g \notin SeqRange(cand)
                         /\ g \notin DOMAIN groups \cup DOMAIN held[p].groups
                         /\ cy'[p].cand = Append(cand, g)]_vars

\* a ride has joined the first of two candidate groups, the second of which
\* would have accepted it too
C27_Witness ==
    \E p \in Procs :
        /\ cy[p].log # <<>>
        /\ Len(cy[p].cand) >= 2
        /\ cy[p].log[Len(cy[p].log)][2] = cy[p].cand[1]
        /\ Accepts(p, cy[p].cand[2], cy[p].log[Len(cy[p].log)][1])

\* C28: the passenger position a ride is priced with is its 1-based place in
\* the order in which passengers were added to its group, all passengers ever
\* added counted; so no ride that joins after a member has cancelled gets a
\* position that a member still in the group already has.
C28_PositionIsJoinOrder ==
    \A g \in DOMAIN joined :
        /\ \A k \in DOMAIN joined[g] : joined[g][k].position = k
        /\ \A i \in DOMAIN joined[g], k \in DOMAIN joined[g] :
              (/\ i < k
               /\ rides[joined[g][i].ride].group = g
               /\ rides[joined[g][k].ride].group = g)
                  => joined[g][i].position # joined[g][k].position

\* C29: within a matching cycle the rides of one cell are placed in ascending
\* creation order: of two PENDING rides of a cell the one created earlier is
\* placed first, and when both join the same group in that cycle the earlier
\* one has the smaller passenger position.
C29_PlacedInCreationOrder ==
    \A p \in Procs : \A i \in DOMAIN cy[p].log, j \in DOMAIN cy[p].log :
        LET a == cy[p].log[i][1]
            b == cy[p].log[j][1]
        IN (i < j /\ ride_h3_cell(rides[a].pickup) = ride_h3_cell(rides[b].pickup)) =>
              /\ a < b
              /\ cy[p].log[i][2] = cy[p].log[j][2] =>
                    cy[p].placed[a].position < cy[p].placed[b].position

\* C30: a successful cancellation of a MATCHED ride lowers its group's
\* seats_occupied and luggage_occupied by the ride's seats and luggage, not
\* below zero, clears the ride's group reference, and sets the group INACTIVE
\* and its cab available exactly when no other ride that is not CANCELLED
\* references the group; a successful cancellation of a PENDING ride changes
\* no group and no cab.
C30_CancelFreesCapacity ==
    [][\A h \in Handlers :
          LET rid == hc[h].rid
          IN (/\ hc[h].pc = "commit" /\ hc'[h].pc = "idle"
              /\ rides[rid].status \in {"PENDING", "MATCHED"}
              /\ rides'[rid].status = "CANCELLED") =>
                 LET g == rides[rid].group
                     others == {i \in DOMAIN rides' \ {rid} :
                                   rides'[i].group = g /\ rides'[i].status # "CANCELLED"}
                 IN IF rides[rid].status = "MATCHED" /\ g # NULL
                    THEN /\ groups'[g].seats = Max(0, groups[g].seats - rides[rid].seats)
                         /\ groups'[g].luggage = Max(0, groups[g].luggage - rides[rid].luggage)
                         /\ rides'[rid].group = NULL
                         /\ groups'[g].status = "INACTIVE" <=> others = {}
                         /\ groups[g].cab # NULL =>
                               /\ others = {} => cabs'[groups[g].cab]
                               /\ others # {} => cabs'[groups[g].cab] = cabs[groups[g].cab]
                    ELSE groups' = groups /\ cabs' = cabs]_vars

\* the passenger at index i of the stop list (all pickups, then all dropoffs)
\* is within the tolerance: its route is negligible, or the hops from stop i
\* to stop n + i sum to at most (1 + tolerance) x its direct distance
WithinTolerance(pickups, dropoffs, i, tenths) ==
    LET stops == pickups \o dropoffs
        n == Len(pickups)
        direct == Abs(pickups[i] - dropoffs[i])
    IN \/ direct < 1
       \/ 10 * HopSum(stops, i, n + i) <= (10 + tenths) * direct

\* C31: detour_ok returns true exactly when every passenger of the group with
\* the candidate appended last is within the tolerance; one passenger outside
\* it, existing or candidate, makes it false.
C31_DetourIffAllWithin ==
    (ret.op = "detour_ok" /\ ret.done) =>
        LET pickups == Append(ret.args[1], ret.args[3])
            dropoffs == Append(ret.args[2], ret.args[4])
        IN ret.out <=> \A i \in DOMAIN pickups :
                          WithinTolerance(pickups, dropoffs, i, ret.args[5])

\* detour_ok has returned false for a candidate that is itself within the
\* tolerance, because the passenger already in the group is not
C31_Witness ==
    /\ ret.op = "detour_ok"
    /\ ret.done
    /\ ~ret.out
    /\ Len(ret.args[1]) = 1
    /\ WithinTolerance(Append(ret.args[1], ret.args[3]), Append(ret.args[2], ret.args[4]),
                       2, ret.args[5])
    /\ ~WithinTolerance(Append(ret.args[1], ret.args[3]), Append(ret.args[2], ret.args[4]),
                        1, ret.args[5])

\* the ride and the group of the placement a step has just logged
JustPlaced(p) == cy'[p].log[Len(cy'[p].log)]

\* no step changes the cell of a group row, stored or held by a transaction
CellsKept ==
    /\ \A g \in DOMAIN groups \cap DOMAIN groups' : groups'[g].cell = groups[g].cell
    /\ \A t \in Tx : \A g \in DOMAIN held[t].groups \cap DOMAIN held'[t].groups :
          held'[t].groups[g].cell = held[t].groups[g].cell
    /\ \A t \in Tx : \A g \in DOMAIN held'[t].groups \cap DOMAIN groups :
          held'[t].groups[g].cell = groups[g].cell

\* C32: whenever the matcher places a ride in a group, joined or new, the
\* group's cell is the cell of the ride's pickup point, it still is when the
\* cycle commits, and no step changes the cell of a group.
C32_GroupCellIsPickupCell ==
    [][/\ \A p \in Procs :
            PlaceStepOf(p) =>
                held'[p].groups[JustPlaced(p)[2]].cell
                    = ride_h3_cell(rides[JustPlaced(p)[1]].pickup)
       /\ \A p \in Procs :
            IsCommit(p) =>
                \A r \in DOMAIN cy[p].placed :
                    groups'[rides'[r].group].cell = ride_h3_cell(rides'[r].pickup)
       /\ CellsKept]_vars

\* the matcher has joined one ride to the stocked group of its cell and has
\* opened a group of another cell for a ride that the stocked group's
\* capacity and detour checks would have let in
C32_Witness ==
    \E r1, r2 \in DOMAIN rides :
        /\ rides[r1].status = "MATCHED" /\ rides[r2].status = "MATCHED"
        /\ rides[r1].group = 1 /\ rides[r2].group # 1
        /\ \E k \in DOMAIN joined[1] : joined[1][k].ride = r1 /\ joined[1][k].position > 1
        /\ rides[r2].group \in DOMAIN joined
        /\ joined[rides[r2].group] = <<[ride |-> r2, position |-> 1]>>
        /\ pc[1] = "release" /\ cy[1].outcome = "committed" /\ cy[1].matched = 2
        /\ groups[1].cell # groups[rides[r2].group].cell
        /\ groups[1].cell = ride_h3_cell(rides[r1].pickup)
        /\ groups[rides[r2].group].cell = ride_h3_cell(rides[r2].pickup)
        /\ groups[1].seats + rides[r2].seats <= DEFAULT_MAX_SEATS
        /\ groups[1].luggage + rides[r2].luggage <= DEFAULT_MAX_LUGGAGE
        /\ rides[r2].dropoff = rides[r1].dropoff

\* the capacity the matcher checks a group against
GroupMaxSeats(g) ==
    IF groups[g].cab # NULL THEN CabMaxSeats(groups[g].cab) ELSE DEFAULT_MAX_SEATS
GroupMaxLuggage(g) ==
    IF groups[g].cab # NULL THEN CabMaxLuggage(groups[g].cab) ELSE DEFAULT_MAX_LUGGAGE

\* C33: with overlapping matching cycles, no group is committed with seats or
\* luggage above its capacity, and no ride is committed twice to a group, its
\* seats counted twice in the group's occupancy.
C33_NoSharedSnapshot ==
    /\ \A g \in DOMAIN groups :
          /\ groups[g].seats <= GroupMaxSeats(g)
          /\ groups[g].luggage <= GroupMaxLuggage(g)
    /\ \A g \in DOMAIN joined :
          \A i \in DOMAIN joined[g], j \in DOMAIN joined[g] :
              joined[g][i].ride = joined[g][j].ride => i = j

\* a matching cycle is between its lock acquire and its commit
CycleInProgress == \E p \in Procs : pc[p] \in {"fetch", "cell", "place", "commit"}

\* C34: while a matching cycle is in progress, a ride submission can be
\* stored and a cancellation request can take its next step up to its
\* commit, without waiting for the cycle to commit.
C34_NeverWaitsForCycle ==
    CycleInProgress =>
        /\ \A body \in Requests :
              (Valid(body) /\ reply.n < MaxRequests /\ Len(rides) < MaxRides)
                  => ENABLED CreateRide(body)
        /\ \A h \in Handlers :
              /\ hc[h].pc = "group" => ENABLED CancelGroup(h)
              /\ hc[h].pc = "rides" => ENABLED CancelRides(h)
              /\ hc[h].pc = "cab" => ENABLED CancelCab(h)
              /\ hc[h].pc = "commit" => ENABLED CancelCommit(h)

\* the rides whose group reference is g
RidesOf(g) == {r \in DOMAIN rides : rides[r].group = g}

\* C35: with no transaction in flight, every ACTIVE group's occupancy is the
\* sum of the seats and of the luggage of the rides that reference it.
C35_OccupancyIsSumOfMembers ==
    Quiescent =>
        \A g \in DOMAIN groups :
            groups[g].status = "ACTIVE" =>
                /\ groups[g].seats = SumSeats(RidesOf(g))
                /\ groups[g].luggage = SumLuggage(RidesOf(g))

\* C36: with the loop running and its cycles committing, every PENDING ride
\* is eventually MATCHED or CANCELLED.
C36_PendingEventuallyLeaves ==
    \A r \in 1..MaxRides :
        (r \in DOMAIN rides /\ rides[r].status = "PENDING")
            ~> (r \in DOMAIN rides /\ rides[r].status \in {"MATCHED", "CANCELLED"})

\* a cycle has committed the match of a ride that waited while another ride
\* was matched and cancelled
C36_Witness ==
    /\ Len(rides) = 2
    /\ rides[1].status = "CANCELLED"
    /\ rides[2].status = "MATCHED"
    /\ pc[1] = "release"
    /\ cy[1].outcome = "committed"
    /\ cy[1].matched = 1

\* run_matching_cycle has returned a value: cy[p].matched
Returned(p) ==
    pc[p] = "returned" /\ cy[p].outcome \in {"skipped", "empty", "committed", "failed"}

\* C37: the value run_matching_cycle returns is the number of rides its commit
\* changed from PENDING to MATCHED: the counter is that number when the commit
\* succeeds, the return leaves it alone, and the value is 0 when the lock was
\* not acquired, when no ride was pending and when the cycle failed.
C37_ReturnsCommittedCount ==
    /\ [](\A p \in Procs :
            (Returned(p) /\ cy[p].outcome # "committed") => cy[p].matched = 0)
    /\ [][\A p \in Procs :
            /\ IsCommit(p) =>
                  cy'[p].matched =
                      Cardinality({r \in DOMAIN rides :
                          rides[r].status = "PENDING" /\ rides'[r].status = "MATCHED"})
            /\ (pc[p] = "release" /\ Returned(p)') => cy'[p].matched = cy[p].matched]_vars

\* C38: with create-ride requests that overlap, at most one ride is stored
\* with an idempotency key, and every request with a key ends without an
\* error, answering the id of the ride stored with its key.
C38_OverlapSameKey ==
    /\ \A i \in DOMAIN rides, j \in DOMAIN rides :
          rides[i].key # NULL /\ rides[i].key = rides[j].key => i = j
    /\ \A h \in Handlers :
          hc[h].ride.key # NULL =>
              /\ hc[h].pc # "raised"
              /\ hc[h].pc = "idle" =>
                    /\ hc[h].code = ACCEPTED
                    /\ hc[h].rid \in DOMAIN rides
                    /\ rides[hc[h].rid].key = hc[h].ride.key

====
